---------------------------- MODULE Spec2Model ----------------------------
(***************************************************************************)
(* A model of the ATS resume application's scoring core                    *)
(* (src/src/core/ats_scorer.py, src/src/core/ats_validator.py).            *)
(*                                                                         *)
(* Python strings are TLA+ strings; a character is a string of length 1.   *)
(* Module strings are ASCII, so each non-ASCII character of the source is  *)
(* written as an ASCII stand-in named after its code point (U2022 etc.).   *)
(***************************************************************************)
EXTENDS Integers, Sequences, FiniteSets, TLC

VARIABLES
    bullet,               \* argument of _analyze_single_bullet
    bulletAnalysis,       \* its BulletAnalysis, or None before the call
    gradeScores,          \* two overall scores handed to _score_to_grade
    grades,               \* their grades, or None before the calls
    resume,               \* ResumeData handed to analyze_resume_ats
    jd,                   \* job_description handed to analyze_resume_ats
    keywords,             \* keywords of the latest analyze_resume_ats call
    analysis,             \* its ATSAnalysisResult, or None before the first call
    vtext,                \* resume_text handed to validate_resume_output
    vdata,                \* resume_data handed to validate_resume_output (or None)
    vkeywords,            \* keywords handed to validate_resume_output
    validation,           \* its ATSValidationResult, or None before the call
    stext,                \* text handed to sanitize_for_ats
    sanitized,            \* what each successive sanitize_for_ats call returned
    rlines,               \* the stripped, non-empty lines of the resume text
    rpass,                \* how far the section passes have run (0 to 3)
    rboundaries,          \* the boundaries dict of the resume parser
    rsections,            \* per section, the (index, line) pairs _get_section_lines returned
    llmAvailable,         \* LLM_PARSER_AVAILABLE of resume_parser.py
    parsePc,              \* where _parse_text stands: start, gate, llm or done
    regex_result,         \* what _parse_text_to_resume_data returned, or None
    llm_result,           \* what parse_resume_with_llm returned, or None
    llmCalls,             \* how often _parse_text called parse_resume_with_llm
    llmRaised,            \* whether parse_resume_with_llm raised
    parsed,               \* how _parse_text ended, or None while it runs
    pdfExists,            \* whether the PDF path exists
    pdfPc,                \* the step of extract_text_from_pdf that comes next
    pdfTried,             \* the strategies tried so far, each with what it gave and whether that was accepted
    pdfResult,            \* how extract_text_from_pdf ended, or None while it runs
    glyphLayout,          \* how the two words of the page were set: words, glyph width, gap, placement
    glyphPages,           \* page.chars of every page handed to _extract_with_char_gaps
    glyphText,            \* what _extract_with_char_gaps returned, or None before the call
    OPTIMIZED_AVAILABLE,  \* whether resume_generator could import llm.client_optimized
    resume_data_cache,    \* the session's ResumeData in resume_data_cache, or None without a session
    uploaded,             \* the ResumeData as save_resume_data stored it at upload
    generations,          \* number of create_resume requests served for the session
    _tasks,               \* the _TaskEntry of every submitted task id (status, result, error, completed_at)
    _semaphore,           \* TaskQueue._semaphore: None until _get_semaphore creates it
    asyncio_task,         \* entry.asyncio_task: where the task running _execute stands, and whether a CancelledError is due
    funcEnded,            \* how entry.func ended, None while it has not
    time,                 \* time.time(), in ticks
    deleted,              \* task ids cleanup_old_tasks deleted from TaskQueue._tasks; _execute keeps their entry
    cleanup_returned,     \* what the latest cleanup_old_tasks returned, or None
    cancel_returned,      \* the latest cancel call: its task_id and what it returned, or None
    cancelled_ok,         \* the task ids for which cancel returned True
    exclude_paths,        \* RateLimitMiddleware.exclude_paths
    _hits,                \* RateLimitMiddleware._hits: ip -> request timestamps
    _loaded_from_db,      \* RateLimitMiddleware._loaded_from_db
    wall_time,            \* time.time() as dispatch reads it
    forwarded,            \* the requests handed to call_next: client ip, path, time
    status_code,          \* status code of the latest response, or None
    api_keys,             \* settings.api_keys, as the set of keys it lists
    _valid_keys,          \* auth._valid_keys
    _loaded,              \* whether _init_auth._loaded is set
    revoked,              \* the keys revoke_api_key removed that add_api_key has not added since
    auth_returned,        \* the latest call of the auth module and what it returned, or None
    files,                \* the regular files of the file system: path -> bytes
    directories,          \* the directories of the file system
    storage_returned,     \* the latest LocalStorage call, its key and its outcome, or None
    resume_versions,      \* deps.resume_versions: session_id -> its ResumeVersions
    analysis_cache,       \* deps.analysis_cache: 'session_id:latest' -> ATSAnalysisResult
    session_timestamps,   \* deps.session_timestamps: session_id -> creation epoch
    epoch,                \* time.time() as deps.py and cleanup.py read it
    in_flight,            \* the analyze and generate requests that wait for the language model or the renderer
    sessions_expired,     \* the latest _cleanup_expired_sessions call: max_age_seconds and what it returned, or None
    section_lines,        \* the lines _get_section_lines gave _extract_experience
    line_no,              \* how many of them the loop has taken
    experience_loop,      \* the locals of the loop: current, bullets, multi_line_bullet, experience_list
    experience_returned,  \* what _extract_experience returned, or None while it runs
    pdf_call,             \* resume_data and keywords handed to validate_pdf_file
    pdf_validation        \* what validate_pdf_file returned, or None while it runs

vars == <<bullet, bulletAnalysis, gradeScores, grades, resume, jd,
          keywords, analysis, vtext, vdata, vkeywords, validation, stext,
          sanitized, rlines, rpass, rboundaries, rsections, llmAvailable,
          parsePc, regex_result, llm_result, llmCalls, llmRaised, parsed,
          pdfExists, pdfPc, pdfTried, pdfResult, glyphLayout, glyphPages,
          glyphText, OPTIMIZED_AVAILABLE, resume_data_cache, uploaded,
          generations, _tasks, _semaphore, asyncio_task, funcEnded, time,
          deleted, cleanup_returned, cancel_returned, cancelled_ok,
          exclude_paths, _hits, _loaded_from_db, wall_time, forwarded,
          status_code, api_keys, _valid_keys, _loaded, revoked,
          auth_returned, files, directories, storage_returned,
          resume_versions, analysis_cache, session_timestamps, epoch,
          in_flight, sessions_expired, section_lines, line_no,
          experience_loop, experience_returned, pdf_call, pdf_validation>>

\* Optional values: None before a call returns, Some(r) after
None == << >>
Some(r) == <<r>>

-----------------------------------------------------------------------------
(* Python str primitives                                                   *)

\* str.lower() on the ASCII letters, as a function from the upper-case letter
LowerOf ==
    [A |-> "a", B |-> "b", C |-> "c", D |-> "d", E |-> "e", F |-> "f",
     G |-> "g", H |-> "h", I |-> "i", J |-> "j", K |-> "k", L |-> "l",
     M |-> "m", N |-> "n", O |-> "o", P |-> "p", Q |-> "q", R |-> "r",
     S |-> "s", T |-> "t", U |-> "u", V |-> "v", W |-> "w", X |-> "x",
     Y |-> "y", Z |-> "z"]
UpperLetters == DOMAIN LowerOf
LowerLetters == {LowerOf[c] : c \in UpperLetters}
Digits == {"0", "1", "2", "3", "4", "5", "6", "7", "8", "9"}
\* str.strip / str.split / regex \s separators (ASCII part)
Whitespace == {" ", "\t", "\n", "\r", "\f"}

\* s[i-1] in Python terms; "" outside the string
Ch(s, i) == IF i >= 1 /\ i <= Len(s) THEN SubSeq(s, i, i) ELSE ""

IsDigit(c) == c \in Digits
IsUpper(c) == c \in UpperLetters
IsLower(c) == c \in LowerLetters
\* regex \w
IsWordChar(c) == IsDigit(c) \/ IsUpper(c) \/ IsLower(c) \/ c = "_"

LowerChar(c) == IF IsUpper(c) THEN LowerOf[c] ELSE c

RECURSIVE lower(_)
lower(s) ==
    IF Len(s) = 0 THEN ""
    ELSE IF Len(s) = 1 THEN LowerChar(s)
    ELSE LET h == Len(s) \div 2
         IN  lower(SubSeq(s, 1, h)) \o lower(SubSeq(s, h + 1, Len(s)))

\* str.strip()
strip(s) ==
    IF \A i \in 1..Len(s) : Ch(s, i) \in Whitespace
    THEN ""
    ELSE LET first == CHOOSE i \in 1..Len(s) :
                          /\ Ch(s, i) \notin Whitespace
                          /\ \A j \in 1..(i - 1) : Ch(s, j) \in Whitespace
             last  == CHOOSE i \in 1..Len(s) :
                          /\ Ch(s, i) \notin Whitespace
                          /\ \A j \in (i + 1)..Len(s) : Ch(s, j) \in Whitespace
         IN  SubSeq(s, first, last)

\* s.startswith(p)
startswith(s, p) == Len(p) <= Len(s) /\ SubSeq(s, 1, Len(p)) = p

\* whether p occurs in s at (1-based) position i
StartsAt(s, i, p) ==
    /\ i >= 1
    /\ i + Len(p) - 1 <= Len(s)
    /\ (p = "" \/ SubSeq(s, i, i + Len(p) - 1) = p)

\* Python "p in s"
Contains(s, p) == \E i \in 1..(Len(s) + 1) : StartsAt(s, i, p)

\* s.count(p) for non-empty p: non-overlapping occurrences, left to right
RECURSIVE CountFrom(_, _, _)
CountFrom(s, p, i) ==
    LET hits == {k \in i..(Len(s) - Len(p) + 1) : StartsAt(s, k, p)}
    IN  IF hits = {} THEN 0
        ELSE LET k == CHOOSE k \in hits : \A h \in hits : k <= h
             IN  1 + CountFrom(s, p, k + Len(p))

\* first position >= i that holds no whitespace (regex \s* taken greedily)
RECURSIVE SkipWs(_, _)
SkipWs(s, i) == IF Ch(s, i) \in Whitespace THEN SkipWs(s, i + 1) ELSE i

\* first position >= i that holds no digit (regex \d+ taken greedily)
RECURSIVE SkipDigits(_, _)
SkipDigits(s, i) == IF IsDigit(Ch(s, i)) THEN SkipDigits(s, i + 1) ELSE i

\* " ".join(parts)
RECURSIVE join(_, _)
join(sep, parts) ==
    IF Len(parts) = 0 THEN ""
    ELSE IF Len(parts) = 1 THEN parts[1]
    ELSE LET h == Len(parts) \div 2
         IN  join(sep, SubSeq(parts, 1, h)) \o sep
                 \o join(sep, SubSeq(parts, h + 1, Len(parts)))

\* bullet_clean.split()[0] of a stripped, non-empty string
FirstWord(s) ==
    LET stop == CHOOSE i \in 1..(Len(s) + 1) :
                    /\ (i = Len(s) + 1 \/ Ch(s, i) \in Whitespace)
                    /\ \A j \in 1..(i - 1) : Ch(s, j) \notin Whitespace
    IN  SubSeq(s, 1, stop - 1)

\* regex \b(w)\b found in s (s and w in the same case)
HasWord(s, w) ==
    \E i \in 1..Len(s) :
        /\ StartsAt(s, i, w)
        /\ ~IsWordChar(Ch(s, i - 1))
        /\ ~IsWordChar(Ch(s, i + Len(w)))

-----------------------------------------------------------------------------
(* ats_scorer.py: vocabularies                                              *)

STRONG_ACTION_VERBS ==
    [ leadership |-> {"spearheaded", "orchestrated", "championed", "directed",
                      "led", "managed", "oversaw", "supervised", "coordinated",
                      "mentored", "guided"},
      achievement |-> {"achieved", "delivered", "exceeded", "outperformed",
                       "surpassed", "attained", "accomplished"},
      technical |-> {"architected", "engineered", "developed", "built",
                     "designed", "implemented", "deployed", "automated",
                     "optimized", "integrated", "configured", "migrated",
                     "refactored", "scaled", "streamlined", "programmed",
                     "coded"},
      analysis |-> {"analyzed", "evaluated", "assessed", "identified",
                    "diagnosed", "investigated", "researched", "discovered"},
      communication |-> {"presented", "authored", "documented", "published",
                         "communicated", "mentored", "trained", "collaborated",
                         "facilitated", "negotiated"},
      improvement |-> {"improved", "enhanced", "accelerated", "reduced",
                       "increased", "boosted", "elevated", "transformed",
                       "modernized", "revamped", "strengthened",
                       "consolidated", "upgraded"},
      creation |-> {"created", "launched", "established", "initiated",
                    "introduced", "pioneered", "founded", "invented"} ]

ALL_ACTION_VERBS == UNION {STRONG_ACTION_VERBS[c] : c \in DOMAIN STRONG_ACTION_VERBS}

WEAK_VERBS ==
    {"helped", "assisted", "worked", "was responsible for", "handled",
     "participated", "involved", "utilized", "used", "did", "made",
     "got", "went", "had", "tried", "attempted"}

-----------------------------------------------------------------------------
(* ats_scorer.py: METRIC_PATTERNS, one matcher per regular expression      *)

\* r'\d+%'
MetricPercent(s) ==
    \E i \in 1..Len(s) : IsDigit(Ch(s, i)) /\ Ch(s, i + 1) = "%"

\* r'\$[\d,]+[KkMmBb]?'
MetricDollar(s) ==
    \E i \in 1..Len(s) :
        Ch(s, i) = "$" /\ (IsDigit(Ch(s, i + 1)) \/ Ch(s, i + 1) = ",")

\* r'\d+[xX]'
MetricMultiplier(s) ==
    \E i \in 1..Len(s) : IsDigit(Ch(s, i)) /\ Ch(s, i + 1) \in {"x", "X"}

\* r'\d+\+?\s*(users|customers|clients|teams|members|engineers|developers)'
MetricPeople(s) ==
    \E i \in 1..Len(s) :
        /\ IsDigit(Ch(s, i))
        /\ \E plus \in {0, 1} :
              /\ (plus = 1 => Ch(s, i + 1) = "+")
              /\ \E w \in {"users", "customers", "clients", "teams", "members",
                           "engineers", "developers"} :
                    StartsAt(s, SkipWs(s, i + 1 + plus), w)

\* r'\d+\s*(seconds?|minutes?|hours?|days?|weeks?|months?)'
MetricDuration(s) ==
    \E i \in 1..Len(s) :
        /\ IsDigit(Ch(s, i))
        /\ \E w \in {"second", "minute", "hour", "day", "week", "month"} :
              StartsAt(s, SkipWs(s, i + 1), w)

\* r'from\s+\d+.*?to\s+\d+'   ('.' matches anything but a newline)
MetricFromTo(s) ==
    \E i \in 1..Len(s) :
        /\ StartsAt(s, i, "from")
        /\ SkipWs(s, i + 4) > i + 4
        /\ IsDigit(Ch(s, SkipWs(s, i + 4)))
        /\ \E p \in (SkipWs(s, i + 4) + 1)..Len(s) :
              /\ StartsAt(s, p, "to")
              /\ \A q \in (SkipWs(s, i + 4) + 1)..(p - 1) : Ch(s, q) # "\n"
              /\ SkipWs(s, p + 2) > p + 2
              /\ IsDigit(Ch(s, SkipWs(s, p + 2)))

\* r'\d+\s*(ms|seconds?|s)\s'
MetricLatency(s) ==
    \E i \in 1..Len(s) :
        /\ IsDigit(Ch(s, i))
        /\ \E w \in {"ms", "second", "seconds", "s"} :
              /\ StartsAt(s, SkipWs(s, i + 1), w)
              /\ Ch(s, SkipWs(s, i + 1) + Len(w)) \in Whitespace

\* r'top\s+\d+%'
MetricTop(s) ==
    \E i \in 1..Len(s) :
        /\ StartsAt(s, i, "top")
        /\ SkipWs(s, i + 3) > i + 3
        /\ IsDigit(Ch(s, SkipWs(s, i + 3)))
        /\ Ch(s, SkipDigits(s, SkipWs(s, i + 3))) = "%"

\* r'\d+[KkMmBb]\+?\s'
MetricQuantity(s) ==
    \E i \in 1..Len(s) :
        /\ IsDigit(Ch(s, i))
        /\ Ch(s, i + 1) \in {"K", "k", "M", "m", "B", "b"}
        /\ \/ Ch(s, i + 2) \in Whitespace
           \/ Ch(s, i + 2) = "+" /\ Ch(s, i + 3) \in Whitespace

\* r'\d{2,}'
MetricNumber(s) ==
    \E i \in 1..Len(s) : IsDigit(Ch(s, i)) /\ IsDigit(Ch(s, i + 1))

\* any(re.search(pattern, bullet_clean) for pattern in METRIC_PATTERNS)
METRIC_PATTERNS(s) ==
    \/ MetricPercent(s)
    \/ MetricDollar(s)
    \/ MetricMultiplier(s)
    \/ MetricPeople(s)
    \/ MetricDuration(s)
    \/ MetricFromTo(s)
    \/ MetricLatency(s)
    \/ MetricTop(s)
    \/ MetricQuantity(s)
    \/ MetricNumber(s)

\* re.search(r'\b(I|my|me|we|our)\b', s, re.IGNORECASE)
HasFirstPersonPronoun(s) ==
    LET folded == lower(s)
    IN  \E w \in {"i", "my", "me", "we", "our"} : HasWord(folded, w)

-----------------------------------------------------------------------------
(* ats_scorer.py: bullet analysis                                           *)

\* The BulletAnalysis fields the scores read.  The three suggestion texts
\* (action_verb_suggestion, metric_suggestion, improved) are output only and
\* are read by no score, grade or recommendation threshold.
BulletAnalysis(original, has_metrics, has_action_verb, score) ==
    [original |-> original, has_metrics |-> has_metrics,
     has_action_verb |-> has_action_verb, score |-> score]

\* a max that always returns its second argument (no floor at 0)
Max_second(a, b) == b

Max(a, b) == IF a >= b THEN a ELSE b
Min(a, b) == IF a <= b THEN a ELSE b

HasActionVerb(bullet_clean) ==
    LET first_word == lower(FirstWord(bullet_clean))
        folded == lower(bullet_clean)
    IN  \/ first_word \in ALL_ACTION_VERBS
        \/ \E verb \in ALL_ACTION_VERBS : startswith(folded, verb)

\* variant of HasWeakVerb: a weak verb anywhere in the bullet ("verb in
\* bullet") instead of at its start
HasWeakVerb_anywhere(bullet_clean) ==
    LET folded == lower(bullet_clean)
    IN  \E verb \in WEAK_VERBS : Contains(folded, verb)

HasWeakVerb(bullet_clean) ==
    LET folded == lower(bullet_clean)
    IN  \E verb \in WEAK_VERBS : startswith(folded, verb)

\* variant of BulletLengthBonus: the ideal band without its lower end
BulletLengthBonus_open(bullet_clean) ==
    IF 50 < Len(bullet_clean) /\ Len(bullet_clean) <= 150 THEN 10
    ELSE IF Len(bullet_clean) >= 30 THEN 5
    ELSE 0

BulletLengthBonus(bullet_clean) ==
    IF 50 <= Len(bullet_clean) /\ Len(bullet_clean) <= 150 THEN 10
    ELSE IF Len(bullet_clean) >= 30 THEN 5
    ELSE 0

_analyze_single_bullet(b) ==
    LET bullet_clean == strip(b)
    IN  IF bullet_clean = ""
        THEN BulletAnalysis(b, FALSE, FALSE, 0)
        ELSE LET has_metrics == METRIC_PATTERNS(bullet_clean)
                 has_action_verb == HasActionVerb(bullet_clean)
                 has_weak_verb == HasWeakVerb(bullet_clean)
                 has_pronouns == HasFirstPersonPronoun(bullet_clean)
                 score == 40
                          + (IF has_action_verb THEN 20 ELSE 0)
                          + (IF has_metrics THEN 25 ELSE 0)
                          - (IF has_weak_verb THEN 15 ELSE 0)
                          - (IF has_pronouns THEN 10 ELSE 0)
                          + BulletLengthBonus(bullet_clean)
             IN  BulletAnalysis(bullet_clean, has_metrics, has_action_verb,
                                Max(0, Min(100, score)))

-----------------------------------------------------------------------------
(* ats_scorer.py: grade                                                     *)

\* variant of _score_to_grade: the B rung tested before the B+ rung
_score_to_grade_swapped(score) ==
    IF score >= 95 THEN "A+"
    ELSE IF score >= 90 THEN "A"
    ELSE IF score >= 80 THEN "B"
    ELSE IF score >= 85 THEN "B+"
    ELSE IF score >= 75 THEN "C+"
    ELSE IF score >= 65 THEN "C"
    ELSE IF score >= 50 THEN "D"
    ELSE "F"

_score_to_grade(score) ==
    IF score >= 95 THEN "A+"
    ELSE IF score >= 90 THEN "A"
    ELSE IF score >= 85 THEN "B+"
    ELSE IF score >= 80 THEN "B"
    ELSE IF score >= 75 THEN "C+"
    ELSE IF score >= 65 THEN "C"
    ELSE IF score >= 50 THEN "D"
    ELSE "F"

-----------------------------------------------------------------------------
(* models.py: the records of a resume                                       *)

Education(degree, university, location, dates, gpa, coursework) ==
    [degree |-> degree, university |-> university, location |-> location,
     dates |-> dates, gpa |-> gpa, coursework |-> coursework]

Experience(title, company, dates, bullets) ==
    [title |-> title, company |-> company, dates |-> dates, bullets |-> bullets]

Project(name, description, technologies, category) ==
    [name |-> name, description |-> description,
     technologies |-> technologies, category |-> category]

Certification(name, issuer, year) ==
    [name |-> name, issuer |-> issuer, year |-> year]

\* one item of the skills dict, which keeps insertion order
SkillCategory(category, skills) == [category |-> category, skills |-> skills]

\* an issue that loses its severity
ATSFormatIssue_info(severity, category, message) ==
    [severity |-> "info", category |-> category, message |-> message]

ATSFormatIssue(severity, category, message) ==
    [severity |-> severity, category |-> category, message |-> message]

KeywordMatch(keyword, found_in_resume, context, importance) ==
    [keyword |-> keyword, found_in_resume |-> found_in_resume,
     context |-> context, importance |-> importance]

SkillGap(skill, importance, related_skills) ==
    [skill |-> skill, importance |-> importance,
     related_skills |-> related_skills]

\* ResumeData; skills, a dict in the source, is the sequence of its
\* (category, skills) items in insertion order, categories distinct
ResumeData(name, email, phone, linkedin, github, location, education, skills, experience, projects, certifications) ==
    [name |-> name, email |-> email, phone |-> phone, linkedin |-> linkedin,
     github |-> github, location |-> location, education |-> education,
     skills |-> skills, experience |-> experience, projects |-> projects,
     certifications |-> certifications]

-----------------------------------------------------------------------------
(* Sequence helpers (Python list idioms)                                    *)

\* the concatenation of a list of lists
RECURSIVE ConcatAll(_)
ConcatAll(seqs) ==
    IF Len(seqs) = 0 THEN << >>
    ELSE IF Len(seqs) = 1 THEN seqs[1]
    ELSE LET h == Len(seqs) \div 2
         IN  ConcatAll(SubSeq(seqs, 1, h)) \o ConcatAll(SubSeq(seqs, h + 1, Len(seqs)))

\* [x] if cond else []
Opt(cond, x) == IF cond THEN <<x>> ELSE << >>

\* sum(1 for x in seq if Test(x))
CountIf(seq, Test(_)) == Cardinality({i \in 1..Len(seq) : Test(seq[i])})

\* a sum that adds nothing
SumSeq_zero(seq) == 0

\* sum(seq)
RECURSIVE SumSeq(_)
SumSeq(seq) ==
    IF Len(seq) = 0 THEN 0
    ELSE IF Len(seq) = 1 THEN seq[1]
    ELSE LET h == Len(seq) \div 2
         IN  SumSeq(SubSeq(seq, 1, h)) + SumSeq(SubSeq(seq, h + 1, Len(seq)))

\* seq[:n]
Take(seq, n) == SubSeq(seq, 1, Min(n, Len(seq)))

-----------------------------------------------------------------------------
(* ats_scorer.py: tables                                                    *)

\* ASCII stand-ins for the non-ASCII characters of ATS_UNFRIENDLY_CHARS
U2192 == "^"   \* rightwards arrow
U2014 == "}"   \* em dash
U2013 == "{"   \* en dash
U2018 == "["   \* left single quotation mark
U2019 == "]"   \* right single quotation mark
U201C == "<"   \* left double quotation mark
U201D == ">"   \* right double quotation mark
U2022 == "~"   \* bullet
U25CF == "#"   \* black circle
U25CB == "|"   \* white circle

ATS_UNFRIENDLY_CHARS ==
    <<U2192, U2014, U2013, U2018, U2019, U201C, U201D, U2022, U25CF, U25CB>>

BUZZWORDS_TO_AVOID ==
    {"synergy", "rockstar", "guru", "ninja", "wizard", "thought leader",
     "go-getter", "self-starter", "team player", "detail-oriented",
     "results-driven", "proven track record"}

\* SYNONYMS of _analyze_keywords: canonical -> synonyms
SYNONYMS ==
    <<[canonical |-> "python", syns |-> <<"python3", "py">>],
      [canonical |-> "javascript", syns |-> <<"js", "ecmascript", "es6", "es2015">>],
      [canonical |-> "typescript", syns |-> <<"ts">>],
      [canonical |-> "react", syns |-> <<"reactjs", "react.js">>],
      [canonical |-> "node.js", syns |-> <<"nodejs", "node">>],
      [canonical |-> "postgresql", syns |-> <<"postgres", "psql">>],
      [canonical |-> "mongodb", syns |-> <<"mongo">>],
      [canonical |-> "kubernetes", syns |-> <<"k8s">>],
      [canonical |-> "docker", syns |-> <<"containers", "containerization">>],
      [canonical |-> "aws", syns |-> <<"amazon web services">>],
      [canonical |-> "gcp", syns |-> <<"google cloud", "google cloud platform">>],
      [canonical |-> "azure", syns |-> <<"microsoft azure">>],
      [canonical |-> "ci/cd", syns |-> <<"continuous integration", "continuous deployment", "cicd">>],
      [canonical |-> "machine learning", syns |-> <<"ml">>],
      [canonical |-> "artificial intelligence", syns |-> <<"ai">>],
      [canonical |-> "rest api", syns |-> <<"restful", "rest apis", "restful api">>],
      [canonical |-> "graphql", syns |-> <<"graph ql">>],
      [canonical |-> "next.js", syns |-> <<"nextjs", "next">>]>>

\* SKILL_SYNONYMS of _analyze_skill_gaps
SKILL_SYNONYMS ==
    <<[canonical |-> "python", syns |-> <<"python3", "py", "cpython">>],
      [canonical |-> "javascript", syns |-> <<"js", "ecmascript", "es6">>],
      [canonical |-> "typescript", syns |-> <<"ts">>],
      [canonical |-> "react", syns |-> <<"reactjs", "react.js">>],
      [canonical |-> "node.js", syns |-> <<"nodejs", "node">>],
      [canonical |-> "postgresql", syns |-> <<"postgres", "psql">>],
      [canonical |-> "mongodb", syns |-> <<"mongo">>],
      [canonical |-> "kubernetes", syns |-> <<"k8s">>],
      [canonical |-> "docker", syns |-> <<"containerization", "containers">>],
      [canonical |-> "aws", syns |-> <<"amazon web services">>],
      [canonical |-> "gcp", syns |-> <<"google cloud", "google cloud platform">>],
      [canonical |-> "azure", syns |-> <<"microsoft azure">>],
      [canonical |-> "ci/cd", syns |-> <<"continuous integration", "continuous deployment", "cicd">>],
      [canonical |-> "machine learning", syns |-> <<"ml">>],
      [canonical |-> "artificial intelligence", syns |-> <<"ai">>],
      [canonical |-> "rest api", syns |-> <<"restful", "rest apis">>]>>

HIGH_IMPORTANCE ==
    {"python", "java", "javascript", "typescript", "go", "rust", "c++", "c#",
     "react", "angular", "vue", "node.js", "spring", "django", "fastapi",
     "aws", "azure", "gcp", "docker", "kubernetes", "terraform",
     "sql", "postgresql", "mongodb", "redis",
     "machine learning", "deep learning"}

DOMAIN_GROUPS ==
    <<{"react", "vue", "angular", "html", "css", "javascript", "typescript",
       "svelte", "next.js", "tailwind"},
      {"python", "java", "node.js", "fastapi", "django", "spring", "express",
       "go", "rust", "flask", ".net"},
      {"aws", "azure", "gcp", "docker", "kubernetes", "terraform",
       "cloudformation", "heroku"},
      {"postgresql", "mysql", "mongodb", "redis", "dynamodb", "cassandra",
       "elasticsearch", "sqlite"},
      {"tensorflow", "pytorch", "scikit-learn", "pandas", "numpy",
       "machine learning", "deep learning", "nlp"},
      {"docker", "kubernetes", "jenkins", "github actions", "gitlab ci",
       "circleci", "terraform", "ansible"},
      {"kafka", "rabbitmq", "sqs", "sns", "event-driven"}>>

-----------------------------------------------------------------------------
(* ats_scorer.py: keyword analysis                                          *)

\* the parts list of _build_resume_text, joined with single spaces
_build_resume_text(resume_data) ==
    join(" ",
        <<resume_data.name, resume_data.email, resume_data.location>>
        \o ConcatAll([i \in 1..Len(resume_data.skills) |->
              <<resume_data.skills[i].category>> \o resume_data.skills[i].skills])
        \o ConcatAll([i \in 1..Len(resume_data.experience) |->
              <<resume_data.experience[i].title, resume_data.experience[i].company>>
                  \o resume_data.experience[i].bullets])
        \o ConcatAll([i \in 1..Len(resume_data.projects) |->
              <<resume_data.projects[i].name, resume_data.projects[i].description>>
                  \o resume_data.projects[i].technologies])
        \o ConcatAll([i \in 1..Len(resume_data.education) |->
              <<resume_data.education[i].degree, resume_data.education[i].university>>
                  \o resume_data.education[i].coursework])
        \o ConcatAll([i \in 1..Len(resume_data.certifications) |->
              <<resume_data.certifications[i].name,
                resume_data.certifications[i].issuer>>]))

\* the found/not-found decision shared in shape by _analyze_keywords and
\* _analyze_skill_gaps: a direct substring match, else a match of any member
\* of a synonym group the keyword belongs to
KeywordFound(kw_lower, resume_text, table) ==
    \/ Contains(resume_text, kw_lower)
    \/ \E e \in 1..Len(table) :
          /\ \/ kw_lower = table[e].canonical
             \/ \E k \in 1..Len(table[e].syns) : kw_lower = table[e].syns[k]
          /\ \/ Contains(resume_text, table[e].canonical)
             \/ \E k \in 1..Len(table[e].syns) :
                   Contains(resume_text, table[e].syns[k])

_determine_keyword_importance(keyword, resume_text) ==
    IF keyword \in HIGH_IMPORTANCE THEN "high" ELSE "medium"

\* returns (keyword_matches, matched, missing); blank keywords are skipped.
\* The three section texts, rebuilt by the source for every found keyword,
\* depend on the resume alone.
_analyze_keywords(resume_data, kws) ==
    LET resume_text == lower(_build_resume_text(resume_data))
        skills_text ==
            lower(join(" ", ConcatAll([i \in 1..Len(resume_data.skills) |->
                                          resume_data.skills[i].skills])))
        experience_text ==
            lower(join(" ", [i \in 1..Len(resume_data.experience) |->
                                join(" ", resume_data.experience[i].bullets)]))
        projects_text ==
            lower(join(" ", [i \in 1..Len(resume_data.projects) |->
                                resume_data.projects[i].description \o " "
                                    \o join(" ", resume_data.projects[i].technologies)]))
        context(kw_lower) ==
            IF Contains(skills_text, kw_lower) THEN "Skills section"
            ELSE IF Contains(experience_text, kw_lower) THEN "Experience section"
            ELSE IF Contains(projects_text, kw_lower) THEN "Projects section"
            ELSE "Resume content"
        match(kw) ==
            LET kw_lower == strip(lower(kw))
                found == KeywordFound(kw_lower, resume_text, SYNONYMS)
            IN  KeywordMatch(kw, found, IF found THEN context(kw_lower) ELSE "",
                             _determine_keyword_importance(kw_lower, resume_text))
        kept == SelectSeq(kws, LAMBDA kw : strip(lower(kw)) # "")
        keyword_matches == << >> \o [i \in 1..Len(kept) |-> match(kept[i])]
        keyword_of(matches) == [i \in 1..Len(matches) |-> matches[i].keyword]
    IN  [keyword_matches |-> keyword_matches,
         matched |-> keyword_of(SelectSeq(keyword_matches,
                                          LAMBDA m : m.found_in_resume)),
         missing |-> keyword_of(SelectSeq(keyword_matches,
                                          LAMBDA m : ~m.found_in_resume))]

-----------------------------------------------------------------------------
(* ats_scorer.py: skills gap analysis                                       *)

\* the resume's skills of the first domain group that lists the missing skill
_find_related_skills(missing_skill, resume_skills) ==
    IF \E d \in 1..Len(DOMAIN_GROUPS) : missing_skill \in DOMAIN_GROUPS[d]
    THEN LET d == CHOOSE d \in 1..Len(DOMAIN_GROUPS) :
                      /\ missing_skill \in DOMAIN_GROUPS[d]
                      /\ \A e \in 1..(d - 1) : missing_skill \notin DOMAIN_GROUPS[e]
         IN  SelectSeq(resume_skills,
                       LAMBDA rs : rs \in DOMAIN_GROUPS[d] /\ rs # missing_skill)
    ELSE << >>

GapImportance(kw_lower, jd_lower) ==
    LET count_in_jd == CountFrom(jd_lower, kw_lower, 1)
        required_phrases ==
            {"must have " \o kw_lower, "required: " \o kw_lower,
             "require " \o kw_lower, "required " \o kw_lower,
             "minimum " \o kw_lower, "mandatory " \o kw_lower}
        preferred_phrases ==
            {"preferred " \o kw_lower, "nice to have " \o kw_lower,
             "bonus " \o kw_lower, "plus " \o kw_lower}
    IN  IF count_in_jd >= 3 \/ \E ph \in required_phrases : Contains(jd_lower, ph)
        THEN "critical"
        ELSE IF count_in_jd >= 2 \/ \E ph \in preferred_phrases : Contains(jd_lower, ph)
        THEN "high"
        ELSE "medium"

\* every gap found, in keyword order (before the sort and the cap)
SkillGapsFound(resume_data, kws, job_description) ==
    LET resume_text == lower(_build_resume_text(resume_data))
        all_resume_skills ==
            ConcatAll([i \in 1..Len(resume_data.skills) |->
                [k \in 1..Len(resume_data.skills[i].skills) |->
                    lower(resume_data.skills[i].skills[k])]])
        jd_lower == lower(job_description)
        gapped == SelectSeq(kws, LAMBDA kw :
                      /\ strip(lower(kw)) # ""
                      /\ ~KeywordFound(strip(lower(kw)), resume_text, SKILL_SYNONYMS))
    IN  [i \in 1..Len(gapped) |->
            SkillGap(gapped[i],
                     GapImportance(strip(lower(gapped[i])), jd_lower),
                     Take(_find_related_skills(strip(lower(gapped[i])),
                                               all_resume_skills), 3))]

\* gaps.sort(key=importance_order) is stable; then gaps[:15]
_analyze_skill_gaps(resume_data, kws, job_description) ==
    LET gaps == SkillGapsFound(resume_data, kws, job_description)
    IN  Take(SelectSeq(gaps, LAMBDA g : g.importance = "critical")
             \o SelectSeq(gaps, LAMBDA g : g.importance = "high")
             \o SelectSeq(gaps, LAMBDA g : g.importance = "medium"), 15)

-----------------------------------------------------------------------------
(* ats_scorer.py: format checks                                             *)

IsAlpha(c) == IsUpper(c) \/ IsLower(c)

\* re.match(r'^[a-zA-Z0-9._%+-]+@[a-zA-Z0-9.-]+\.[a-zA-Z]{2,}$', email):
\* the local part holds no "@", so the "@" is the first one; the top-level
\* domain holds no ".", so its dot is the last one; "$" also matches before
\* one trailing newline
EmailMatches(email) ==
    \E end \in {Len(email), Len(email) - 1} :
        /\ end = Len(email) \/ Ch(email, Len(email)) = "\n"
        /\ \E at \in 2..end, dot \in 3..end :
              /\ Ch(email, at) = "@"
              /\ Ch(email, dot) = "."
              /\ dot > at + 1
              /\ end - dot >= 2
              /\ \A i \in 1..(at - 1) :
                    \/ IsAlpha(Ch(email, i)) \/ IsDigit(Ch(email, i))
                    \/ Ch(email, i) \in {".", "_", "%", "+", "-"}
              /\ \A i \in (at + 1)..(dot - 1) :
                    \/ IsAlpha(Ch(email, i)) \/ IsDigit(Ch(email, i))
                    \/ Ch(email, i) \in {".", "-"}
              /\ \A i \in (dot + 1)..end : IsAlpha(Ch(email, i))

\* Issue messages that the source formats with names and counts are kept by
\* their fixed text; suggestions are not modelled.
_check_ats_formatting(resume_data) ==
    LET resume_text == _build_resume_text(resume_data)
        all_bullets == ConcatAll([i \in 1..Len(resume_data.experience) |->
                                     resume_data.experience[i].bullets])
        per_role == ConcatAll([i \in 1..Len(resume_data.experience) |->
            IF Len(resume_data.experience[i].bullets) < 3
            THEN <<ATSFormatIssue("warning", "content", "has only bullet(s)")>>
            ELSE IF Len(resume_data.experience[i].bullets) > 8
            THEN <<ATSFormatIssue("info", "content", "bullets (too many)")>>
            ELSE << >>])
        buzz == ConcatAll([i \in 1..Len(all_bullets) |->
            LET folded == lower(all_bullets[i])
            IN  Opt(\E w \in BUZZWORDS_TO_AVOID : Contains(folded, w),
                    ATSFormatIssue("info", "content",
                                   "Buzzword found without supporting evidence"))])
    IN  (IF resume_data.email = ""
         THEN <<ATSFormatIssue("critical", "content", "Missing email address")>>
         ELSE Opt(~EmailMatches(resume_data.email),
                  ATSFormatIssue("warning", "formatting",
                                 "Email format may not parse correctly")))
        \o Opt(resume_data.phone = "",
               ATSFormatIssue("warning", "content", "Missing phone number"))
        \o Opt(resume_data.linkedin = "",
               ATSFormatIssue("info", "content", "No LinkedIn profile URL found"))
        \o Opt(resume_data.location = "",
               ATSFormatIssue("warning", "content", "Missing location information"))
        \o ConcatAll([c \in 1..Len(ATS_UNFRIENDLY_CHARS) |->
              Opt(Contains(resume_text, ATS_UNFRIENDLY_CHARS[c]),
                  ATSFormatIssue("warning", "formatting",
                                 "ATS-unfriendly character detected"))])
        \o Opt(resume_data.experience = << >>,
               ATSFormatIssue("critical", "structure",
                              "No work experience section found"))
        \o Opt(resume_data.education = << >>,
               ATSFormatIssue("warning", "structure", "No education section found"))
        \o Opt(resume_data.skills = << >>,
               ATSFormatIssue("critical", "structure", "No skills section found"))
        \o (IF all_bullets # << >>
            THEN per_role
                 \o Opt(\E i \in 1..Len(all_bullets) : Len(all_bullets[i]) < 30,
                        ATSFormatIssue("warning", "content",
                                       "bullet(s) are too short (< 30 chars)"))
                 \o Opt(\E i \in 1..Len(all_bullets) : Len(all_bullets[i]) > 200,
                        ATSFormatIssue("info", "content",
                                       "bullet(s) exceed 200 characters"))
                 \o Opt(\E i \in 1..Len(all_bullets) :
                            HasFirstPersonPronoun(all_bullets[i]),
                        ATSFormatIssue("warning", "content",
                                       "bullet(s) contain first-person pronouns"))
                 \o buzz
            ELSE << >>)
        \o ConcatAll([i \in 1..Len(resume_data.experience) |->
              Opt(resume_data.experience[i].dates = "",
                  ATSFormatIssue("warning", "content", "No dates"))])
        \o Opt(resume_data.certifications = << >>,
               ATSFormatIssue("info", "structure", "No certifications section"))

-----------------------------------------------------------------------------
(* ats_scorer.py: bullet analysis over the resume                           *)

_analyze_bullets(resume_data) ==
    ConcatAll([i \in 1..Len(resume_data.experience) |->
        [k \in 1..Len(resume_data.experience[i].bullets) |->
            _analyze_single_bullet(resume_data.experience[i].bullets[k])]])
    \o ConcatAll([i \in 1..Len(resume_data.projects) |->
        Opt(resume_data.projects[i].description # "",
            _analyze_single_bullet(resume_data.projects[i].description))])

-----------------------------------------------------------------------------
(* ats_scorer.py: scores                                                    *)

\* A Python float that is exactly num/den (den > 0) is carried as the pair.
Ratio(num, den) == [num |-> num, den |-> den]

\* round-to-nearest in place of truncation
IntOf_nearest(num, den, ulp) == (2 * num + den) \div (2 * den)

\* int(x) of a non-negative float whose exact value is num/den.  The float
\* itself carries IEEE-754 rounding error from the products and sums that
\* built it: when the exact value is a positive integer v the float may lie
\* just below v, and int() then yields v - 1.  ulp (0 or 1) says which.
IntOf(num, den, ulp) ==
    IF num % den = 0 /\ num > 0 THEN (num \div den) - ulp ELSE num \div den

\* round(x, 1) of the float num/den >= 0, in tenths: nearest, ties to even
RoundTenths(num, den) ==
    LET q == (10 * num) \div den
        r == (10 * num) % den
    IN  IF 2 * r > den \/ (2 * r = den /\ q % 2 = 1) THEN q + 1 ELSE q

\* the outcomes of the float roundings of content_score and of overall
FloatUlps == [content : {0, 1}, overall : {0, 1}]

\* The set of score dicts the call can return, one per outcome of the two
\* float roundings.  keyword_pct arrives as Ratio(100 * matched, keywords);
\* for fewer than 125 keywords the float product keyword_pct * 1.25 truncates
\* to the exact floor, so keyword_score has a single outcome.
_calculate_scores(keyword_pct, format_issues, bullet_analyses, resume_data) ==
    LET keyword_score ==
            Min(100, IntOf(keyword_pct.num * 125, keyword_pct.den * 100, 0))
        n == Len(bullet_analyses)
        score_sum == SumSeq([i \in 1..n |-> bullet_analyses[i].score])
        metrics == CountIf(bullet_analyses, LAMBDA b : b.has_metrics)
        actions == CountIf(bullet_analyses, LAMBDA b : b.has_action_verb)
        \* avg * 0.4 + metrics_pct * 0.3 + action_pct * 0.3 over 10 * n
        content_num == 4 * score_sum + 300 * metrics + 300 * actions
        content_score(ulps) ==
            IF n > 0 THEN IntOf(content_num, 10 * n, ulps.content) ELSE 20
        total_bullets == SumSeq([i \in 1..Len(resume_data.experience) |->
                                    Len(resume_data.experience[i].bullets)])
        completeness ==
              (IF resume_data.experience # << >>
               THEN 25 + (IF total_bullets >= 3 * Len(resume_data.experience)
                          THEN 5 ELSE 0)
               ELSE 0)
            + (IF resume_data.education # << >> THEN 20 ELSE 0)
            + (IF resume_data.skills # << >>
               THEN 20 + (IF Len(resume_data.skills) >= 3 THEN 5 ELSE 0)
               ELSE 0)
            + (IF resume_data.email # "" THEN 5 ELSE 0)
            + (IF resume_data.phone # "" THEN 5 ELSE 0)
            + (IF resume_data.location # "" THEN 5 ELSE 0)
            + (IF resume_data.projects # << >> THEN 5 ELSE 0)
            + (IF resume_data.certifications # << >> THEN 5 ELSE 0)
        critical_issues == CountIf(format_issues, LAMBDA i : i.severity = "critical")
        warning_issues == CountIf(format_issues, LAMBDA i : i.severity = "warning")
        format_score == Max(0, 100 - (critical_issues * 20) - (warning_issues * 8))
        overall(ulps) == IntOf(40 * keyword_score + 30 * content_score(ulps)
                                   + 20 * completeness + 10 * format_score,
                               100, ulps.overall)
    IN  {[overall |-> Max(0, Min(100, overall(ulps))),
          keyword_match |-> Max(0, Min(100, keyword_score)),
          content_quality |-> Max(0, Min(100, content_score(ulps))),
          completeness |-> Max(0, Min(100, completeness)),
          formatting |-> Max(0, Min(100, format_score))] : ulps \in FloatUlps}

\* The set of ATSAnalysisResults the call can return (one per score dict),
\* with the fields other than top_recommendations (advice text that no score
\* reads).  The three percentages are held in tenths of a percent, the
\* precision round(x, 1) leaves them with.
analyze_resume_ats(resume_data, job_description, kws) ==
    LET kw == _analyze_keywords(resume_data, kws)
        keyword_pct == IF kws # << >>
                       THEN Ratio(100 * Len(kw.matched), Len(kws))
                       ELSE Ratio(0, 1)
        format_issues == _check_ats_formatting(resume_data)
        bullet_analyses == _analyze_bullets(resume_data)
        skill_gaps == _analyze_skill_gaps(resume_data, kws, job_description)
        total_bullets == Len(bullet_analyses)
        metrics_count == CountIf(bullet_analyses, LAMBDA b : b.has_metrics)
        action_count == CountIf(bullet_analyses, LAMBDA b : b.has_action_verb)
        rest ==
            [keyword_matches |-> kw.keyword_matches,
             keyword_match_percentage |->
                 RoundTenths(keyword_pct.num, keyword_pct.den),
             matched_keywords |-> kw.matched,
             missing_keywords |-> kw.missing,
             skill_gaps |-> skill_gaps,
             format_issues |-> format_issues,
             bullet_analyses |-> Take(bullet_analyses, 20),
             bullets_with_metrics_pct |->
                 IF total_bullets > 0
                 THEN RoundTenths(100 * metrics_count, total_bullets) ELSE 0,
             bullets_with_action_verbs_pct |->
                 IF total_bullets > 0
                 THEN RoundTenths(100 * action_count, total_bullets) ELSE 0]
    IN  {[overall_score |-> scores.overall,
          score_breakdown |-> scores,
          grade |-> _score_to_grade(scores.overall)] @@ rest :
            scores \in _calculate_scores(keyword_pct, format_issues,
                                         bullet_analyses, resume_data)}

-----------------------------------------------------------------------------
(* ats_validator.py: tables                                                 *)

\* ASCII stand-ins for further non-ASCII characters the validator names
U25BA == "!"   \* black right-pointing pointer
U25AA == "&"   \* black small square
U2023 == ";"   \* triangular bullet
U2605 == "="   \* black star
U200B == "?"   \* zero-width space (U+FEFF is treated alike everywhere)
U200C == ":"   \* zero-width non-joiner (U+200D is treated alike everywhere)

\* The non-ASCII characters of the model's alphabet.  A model text holds the
\* ASCII characters other than these stand-ins, and these.
NonAscii ==
    {U2192, U2014, U2013, U2018, U2019, U201C, U201D, U2022, U25CF, U25CB,
     U25BA, U25AA, U2023, U2605, U200B, U200C}

\* control characters other than \n \r \t (ord(c) < 32) of the alphabet
ControlChars == {"\f"}

ATSValidationIssue(severity, check, message) ==
    [severity |-> severity, check |-> check, message |-> message]

STANDARD_SECTION_NAMES ==
    [experience |-> <<"experience", "work experience", "professional experience",
                      "employment", "employment history", "work history">>,
     education |-> <<"education", "academic background", "academic history">>,
     skills |-> <<"skills", "technical skills", "core competencies",
                  "proficiencies", "technologies">>,
     projects |-> <<"projects", "personal projects", "key projects",
                    "selected projects">>,
     certifications |-> <<"certifications", "certificates", "licenses",
                          "professional certifications">>,
     summary |-> <<"summary", "professional summary", "profile", "objective",
                   "career objective">>]

\* the keys of NON_STANDARD_HEADERS, in the dict's order
NON_STANDARD_HEADERS ==
    <<"my journey", "career journey", "what i've done", "my story", "about me",
      "toolbox", "arsenal", "superpowers", "achievements", "highlights">>

\* the keys of ATS_BREAKING_CHARS that the model's alphabet holds; the other
\* keys of the source's table occur in no model text
ATS_BREAKING_CHARS == {U2605, U25BA, U25AA, U25CF, U25CB, U2192, U200B}

MONTHS ==
    {<<"jan", "january">>, <<"feb", "february">>, <<"mar", "march">>,
     <<"apr", "april">>, <<"may", "may">>, <<"jun", "june">>, <<"jul", "july">>,
     <<"aug", "august">>, <<"sep", "september">>, <<"oct", "october">>,
     <<"nov", "november">>, <<"dec", "december">>}

-----------------------------------------------------------------------------
(* Python str and re idioms the validator uses                              *)

\* the starts of the words of text.split()
WordStarts(s) ==
    {i \in 1..Len(s) : Ch(s, i) \notin Whitespace
                       /\ (i = 1 \/ Ch(s, i - 1) \in Whitespace)}

\* the word of text.split() that starts at i is longer than n characters
WordLongerThan(s, i, n) ==
    i + n <= Len(s) /\ \A k \in 1..n : Ch(s, i + k) \notin Whitespace

\* s.split('\n')
RECURSIVE SplitLines(_)
SplitLines(s) ==
    LET n == Len(s)
        breaks == {i \in 1..n : Ch(s, i) = "\n"}
        Off(i) == IF 2 * i >= n THEN 2 * i - n ELSE n - 2 * i
    IN  IF breaks = {} THEN <<s>>
        ELSE LET p == CHOOSE p \in breaks : \A q \in breaks : Off(p) <= Off(q)
             IN  SplitLines(SubSeq(s, 1, p - 1)) \o SplitLines(SubSeq(s, p + 1, n))

\* re.sub(r'[^\d]', '', s)
RECURSIVE DigitsOf(_)
DigitsOf(s) ==
    IF Len(s) = 0 THEN ""
    ELSE IF Len(s) = 1 THEN (IF IsDigit(s) THEN s ELSE "")
    ELSE LET h == Len(s) \div 2
         IN  DigitsOf(SubSeq(s, 1, h)) \o DigitsOf(SubSeq(s, h + 1, Len(s)))

\* the characters i .. i + n - 1 of s are digits
DigitsAt(s, i, n) == \A k \in 0..(n - 1) : IsDigit(Ch(s, i + k))

\* regex \b between the characters i - 1 and i
WordBoundary(s, i) == IsWordChar(Ch(s, i - 1)) # IsWordChar(Ch(s, i))

\* re.search(r'[a-zA-Z0-9._%+-]+@[a-zA-Z0-9.-]+\.[a-zA-Z]{2,}', s)
EmailSearch(s) ==
    \E at \in 2..Len(s) :
        /\ Ch(s, at) = "@"
        /\ \/ IsAlpha(Ch(s, at - 1)) \/ IsDigit(Ch(s, at - 1))
           \/ Ch(s, at - 1) \in {".", "_", "%", "+", "-"}
        /\ \E dot \in (at + 2)..Len(s) :
              /\ Ch(s, dot) = "."
              /\ IsAlpha(Ch(s, dot + 1)) /\ IsAlpha(Ch(s, dot + 2))
              /\ \A i \in (at + 1)..(dot - 1) :
                    \/ IsAlpha(Ch(s, i)) \/ IsDigit(Ch(s, i))
                    \/ Ch(s, i) \in {".", "-"}

PhoneSeparators == {"-", "."} \cup Whitespace

\* the position after an optional character of set at i (regex [set]?)
SkipOne(s, i, set) == IF Ch(s, i) \in set THEN i + 1 ELSE i

\* the number of digits from i on, max at most (regex \d{0,max} taken greedily)
DigitRun(s, i, max) ==
    CHOOSE k \in 0..max :
        DigitsAt(s, i, k) /\ (k = max \/ ~IsDigit(Ch(s, i + k)))

\* One way through
\*   [\+]?[(]?\d{1,4}[)]?[-\s\.]?\d{1,4}[-\s\.]?\d{1,9}
\* from position i, with k1 and k2 digits in the first two groups: the end of
\* the match and its digit count, or end = 0.  Each optional item is taken
\* when present (skipping it would leave its character to a \d); the last
\* group takes the digits it finds, nine at most.
PhoneTry(s, i, k1, k2) ==
    LET b == SkipOne(s, SkipOne(s, i, {"+"}), {"("})
        e == SkipOne(s, SkipOne(s, b + k1, {")"}), PhoneSeparators)
        g == SkipOne(s, e + k2, PhoneSeparators)
        k3 == DigitRun(s, g, 9)
    IN  IF DigitsAt(s, b, k1) /\ DigitsAt(s, e, k2) /\ k3 >= 1
        THEN [end |-> g + k3, digits |-> k1 + k2 + k3]
        ELSE [end |-> 0, digits |-> 0]

\* the match the regex engine settles on at i: the longest first group that
\* lets the rest match, then the longest second group
PhoneMatch(s, i) ==
    LET ways == {w \in (1..4) \X (1..4) : PhoneTry(s, i, w[1], w[2]).end > 0}
    IN  IF ways = {} THEN [end |-> 0, digits |-> 0]
        ELSE LET w == CHOOSE w \in ways :
                          \A v \in ways : v[1] < w[1] \/ (v[1] = w[1] /\ v[2] <= w[2])
             IN  PhoneTry(s, i, w[1], w[2])

\* re.findall(phone_pattern, s) from position i on, as the digit counts of
\* the matches: leftmost first, each next one after the end of the last
RECURSIVE PhoneFindall(_, _)
PhoneFindall(s, i) ==
    LET starts == {k \in i..Len(s) :
                      /\ IsDigit(Ch(s, k)) \/ Ch(s, k) \in {"+", "("}
                      /\ PhoneMatch(s, k).end > 0}
    IN  IF starts = {} THEN << >>
        ELSE LET k == CHOOSE k \in starts : \A h \in starts : k <= h
                 m == PhoneMatch(s, k)
             IN  <<m.digits>> \o PhoneFindall(s, m.end)

\* re.search(r'[\(]?\d{3}[\)]?[-.\s]?\d{3}[-.\s]?\d{4}', s)
HeaderPhoneSearch(s) ==
    \E i \in 1..Len(s) :
        /\ DigitsAt(s, i, 3)
        /\ \E a \in {i + 3} \cup (IF Ch(s, i + 3) = ")" THEN {i + 4} ELSE {}) :
           \E b \in {a} \cup (IF Ch(s, a) \in PhoneSeparators THEN {a + 1} ELSE {}) :
              /\ DigitsAt(s, b, 3)
              /\ \E c \in {b + 3} \cup (IF Ch(s, b + 3) \in PhoneSeparators
                                        THEN {b + 4} ELSE {}) :
                    DigitsAt(s, c, 4)

\* the end of the run of lower-case letters that starts at i (i if none)
RECURSIVE SkipLower(_, _)
SkipLower(s, i) == IF IsLower(Ch(s, i)) THEN SkipLower(s, i + 1) ELSE i

\* re.search(r'\b[A-Z][a-z]+(?:\s[A-Z][a-z]+)?,\s*[A-Z]{2}\b', s)
LocationSearch(s) ==
    \E i \in 1..Len(s) :
        /\ IsUpper(Ch(s, i))
        /\ WordBoundary(s, i)
        /\ IsLower(Ch(s, i + 1))
        /\ LET a == SkipLower(s, i + 1)
               b == IF /\ Ch(s, a) \in Whitespace
                       /\ IsUpper(Ch(s, a + 1))
                       /\ IsLower(Ch(s, a + 2))
                    THEN SkipLower(s, a + 2)
                    ELSE a
               \* the optional second word is given up when no comma follows it
               AfterComma(c) ==
                   /\ Ch(s, c) = ","
                   /\ LET d == SkipWs(s, c + 1)
                      IN  /\ IsUpper(Ch(s, d))
                          /\ IsUpper(Ch(s, d + 1))
                          /\ WordBoundary(s, d + 2)
           IN  AfterComma(b) \/ AfterComma(a)

\* \b(?:Jan(?:uary)?|...|Dec(?:ember)?)\s+\d{4}\b found in s, ignoring case
MonthYearSearch(s) ==
    LET folded == lower(s)
    IN  \E i \in 1..Len(s) :
            /\ WordBoundary(folded, i)
            /\ \E m \in MONTHS : \E name \in {m[1], m[2]} :
                  /\ StartsAt(folded, i, name)
                  /\ Ch(folded, i + Len(name)) \in Whitespace
                  /\ LET d == SkipWs(folded, i + Len(name))
                     IN  /\ DigitsAt(folded, d, 4)
                         /\ WordBoundary(folded, d + 4)

\* \b\d{1,2}/\d{4}\b found in s
NumericDateSearch(s) ==
    \E i \in 1..Len(s) : \E n \in {1, 2} :
        /\ WordBoundary(s, i)
        /\ DigitsAt(s, i, n)
        /\ Ch(s, i + n) = "/"
        /\ DigitsAt(s, i + n + 1, 4)
        /\ WordBoundary(s, i + n + 5)

\* \b\d{4}\b found in s
YearSearch(s) ==
    \E i \in 1..Len(s) :
        WordBoundary(s, i) /\ DigitsAt(s, i, 4) /\ WordBoundary(s, i + 4)

\* any of ATS_DATE_PATTERNS found in s, ignoring case
ATS_DATE_PATTERNS(s) ==
    LET folded == lower(s)
    IN  \/ MonthYearSearch(s)
        \/ NumericDateSearch(s)
        \/ YearSearch(s)
        \/ HasWord(folded, "present")
        \/ HasWord(folded, "current")

-----------------------------------------------------------------------------
(* ats_validator.py: the ten checks.  Each check of the source appends to   *)
(* result.issues and returns passed; here it returns both, and the parts    *)
(* of result it fills in.  Issue messages that the source formats with      *)
(* counts are kept by their fixed text; suggestions are not modelled.       *)

Check(passed, issues) == [passed |-> passed, issues |-> issues]

_check_text_readability(text) ==
    IF text = "" \/ Len(strip(text)) < 100
    THEN Check(FALSE, <<ATSValidationIssue("critical", "text_readability",
                            "Resume text is too short or empty")>>)
    ELSE LET non_ascii_count ==
                 Cardinality({i \in 1..Len(text) : Ch(text, i) \in NonAscii})
             garbled == 10 * non_ascii_count > Len(text)
             long_words ==
                 {i \in WordStarts(text) :
                     WordLongerThan(text, i, 30) /\ ~StartsAt(text, i, "http")}
             scrambled == Cardinality(long_words) > 3
             \* re.search(r'(.)\1{10,}', text)
             repeated ==
                 \E i \in 1..Len(text) :
                     /\ Ch(text, i) # "\n"
                     /\ \A k \in 1..10 : Ch(text, i + k) = Ch(text, i)
         IN  Check(~garbled /\ ~scrambled /\ ~repeated,
                   Opt(garbled, ATSValidationIssue("warning", "text_readability",
                                    "High non-ASCII character ratio"))
                   \o Opt(scrambled, ATSValidationIssue("critical", "text_readability",
                                         "excessively long words"))
                   \o Opt(repeated, ATSValidationIssue("warning", "text_readability",
                                        "Found repeated character sequences")))

SectionFound(text_lower, section) ==
    \E k \in 1..Len(STANDARD_SECTION_NAMES[section]) :
        Contains(text_lower, STANDARD_SECTION_NAMES[section][k])

_check_section_detection(text) ==
    LET text_lower == lower(text)
        required_sections == <<"experience", "education", "skills">>
        section_detection ==
            [section \in DOMAIN STANDARD_SECTION_NAMES |->
                SectionFound(text_lower, section)]
    IN  [passed |-> \A k \in 1..3 : section_detection[required_sections[k]],
         issues |-> ConcatAll([k \in 1..3 |->
             Opt(~section_detection[required_sections[k]],
                 ATSValidationIssue("critical", "section_detection",
                     "Required section not detected: " \o required_sections[k]))]),
         section_detection |-> section_detection]

\* the issues and the contact_parsed entries that follow from what was found
ContactParsing(emails, phones, linkedin_found, locations, email_lost, phone_lost) ==
    [passed |-> emails /\ phones /\ ~email_lost /\ ~phone_lost,
     issues |->
         Opt(~emails, ATSValidationIssue("critical", "contact_parsing",
                          "No email address detected in resume text"))
         \o Opt(~phones, ATSValidationIssue("warning", "contact_parsing",
                             "No phone number detected in resume text"))
         \o Opt(email_lost, ATSValidationIssue("critical", "contact_parsing",
                                "Original email not found in generated resume"))
         \o Opt(phone_lost, ATSValidationIssue("warning", "contact_parsing",
                                "Original phone number not found in generated resume")),
     contact_parsed |-> [email |-> emails, phone |-> phones,
                         linkedin |-> linkedin_found, location |-> locations]]

\* some phone match keeps at least ten digits
LongPhone(found) == \E k \in DOMAIN found : found[k] >= 10

\* the original email is given and is not in the text
EmailLost(text, resume_data) ==
    /\ resume_data # None
    /\ resume_data[1].email # ""
    /\ ~Contains(text, resume_data[1].email)

\* the original phone number has digits and they are not in the text's digits
PhoneLost(text, resume_data) ==
    /\ resume_data # None
    /\ resume_data[1].phone # ""
    /\ DigitsOf(resume_data[1].phone) # ""
    /\ ~Contains(DigitsOf(text), DigitsOf(resume_data[1].phone))

\* resume_data is None or Some(ResumeData)
_check_contact_parsing(text, resume_data) ==
    ContactParsing(EmailSearch(text),
                   LongPhone(PhoneFindall(text, 1)),
                   Contains(lower(text), "linkedin"),
                   LocationSearch(text),
                   EmailLost(text, resume_data),
                   PhoneLost(text, resume_data))

_check_date_formats(text) ==
    LET none_found == ~ATS_DATE_PATTERNS(text)
        mixed == MonthYearSearch(text) /\ NumericDateSearch(text)
    IN  Check(~none_found /\ ~mixed,
              Opt(none_found, ATSValidationIssue("warning", "date_formats",
                                  "No parseable dates found in resume"))
              \o Opt(mixed, ATSValidationIssue("warning", "date_formats",
                                "Mixed date formats detected")))

_check_special_characters(text) ==
    LET found_chars == \E c \in ATS_BREAKING_CHARS : Contains(text, c)
        invisible == \E c \in ControlChars : Contains(text, c)
    IN  Check(~found_chars /\ ~invisible,
              Opt(found_chars, ATSValidationIssue("warning", "special_characters",
                                   "ATS-unfriendly characters detected"))
              \o Opt(invisible, ATSValidationIssue("warning", "special_characters",
                                    "invisible/control characters")))

_check_structure(text) ==
    LET word_count == Cardinality(WordStarts(text))
        lines == SplitLines(strip(text))
        non_empty_lines == SelectSeq(lines, LAMBDA l : strip(l) # "")
    IN  Check(word_count >= 150,
              (IF word_count < 150
               THEN <<ATSValidationIssue("warning", "structure", "too sparse")>>
               ELSE Opt(word_count > 1200,
                        ATSValidationIssue("info", "structure",
                                           "may exceed 2 pages")))
              \o Opt(Len(non_empty_lines) > 80,
                     ATSValidationIssue("info", "structure", "may exceed 1 page")))

_check_section_names(text) ==
    LET text_lower == lower(text)
        bad == SelectSeq(NON_STANDARD_HEADERS,
                         LAMBDA bad_name : Contains(text_lower, bad_name))
    IN  Check(bad = << >>,
              [k \in 1..Len(bad) |->
                  ATSValidationIssue("critical", "section_names",
                      "Non-standard section header detected: " \o bad[k])])

\* text_lower.count(kw_lower); the empty string counts len + 1 times
KeywordCount(text_lower, kw_lower) ==
    IF kw_lower = "" THEN Len(text_lower) + 1 ELSE CountFrom(text_lower, kw_lower, 1)

_check_keyword_density(text, kws) ==
    LET text_lower == lower(text)
        counts == << >> \o [k \in 1..Len(kws) |->
                               KeywordCount(text_lower, lower(kws[k]))]
        present == Cardinality({k \in 1..Len(kws) : counts[k] > 0})
        total == Len(kws)
        \* match_pct = present / total * 100, compared with 40 and with 60
        low == total > 0 /\ 100 * present < 40 * total
        fair == total > 0 /\ ~low /\ 100 * present < 60 * total
    IN  [passed |-> ~low,
         issues |->
             ConcatAll([k \in 1..Len(kws) |->
                 Opt(counts[k] > 5,
                     ATSValidationIssue("warning", "keyword_density",
                         "may trigger keyword stuffing filter: " \o kws[k]))])
             \o Opt(low, ATSValidationIssue("critical", "keyword_density",
                             "keyword match below ATS threshold"))
             \o Opt(fair, ATSValidationIssue("warning", "keyword_density",
                              "keyword match below optimal range")),
         \* a dict: a keyword listed twice keeps one entry
         keyword_density |->
             [kw \in {kws[k] : k \in 1..Len(kws)} |->
                 KeywordCount(text_lower, lower(kw))]]

_check_contact_completeness(text) ==
    LET lines == SplitLines(strip(text))
        header == join("\n", Take(lines, 8))
        email_missing == ~EmailSearch(header)
        phone_in_header == HeaderPhoneSearch(header)
    IN  Check(~email_missing,
              Opt(email_missing,
                  ATSValidationIssue("warning", "contact_completeness",
                                     "Email not found in header area (first 8 lines)"))
              \o Opt(~phone_in_header,
                     ATSValidationIssue("info", "contact_completeness",
                                        "Phone number not found in header area")))

\* the glyphs a bullet line may start with: the startswith tuple and the
\* character class, restricted to the model's alphabet
BulletGlyphs ==
    {U2022, "-", "*", U2013, U2014, U25BA, U25AA, U25CF, U2023, U25CB}

_check_bullet_format(text) ==
    LET lines == SplitLines(text)
        bullet_lines ==
            SelectSeq([k \in 1..Len(lines) |-> strip(lines[k])],
                      LAMBDA l : l # "" /\ Ch(l, 1) \in BulletGlyphs)
        exotic_bullets ==
            SelectSeq(bullet_lines, LAMBDA l : Ch(l, 1) \notin {U2022, "-", "*"})
    IN  Check(exotic_bullets = << >>,
              Opt(exotic_bullets # << >>,
                  ATSValidationIssue("warning", "bullet_format",
                                     "bullets use non-standard characters")))

-----------------------------------------------------------------------------
(* ats_validator.py: validate_resume_output                                 *)

ATSValidationResult(ats_compatible, compatibility_score, issues, checks_passed, checks_total, section_detection, contact_parsed, keyword_density) ==
    [ats_compatible |-> ats_compatible,
     compatibility_score |-> compatibility_score,
     issues |-> issues,
     checks_passed |-> checks_passed,
     checks_total |-> checks_total,
     section_detection |-> section_detection,
     contact_parsed |-> contact_parsed,
     keyword_density |-> keyword_density]

\* a deduction that does not look at the severity
Deduction_flat(severity) == 5

\* what one issue takes off the score
Deduction(severity) ==
    IF severity = "critical" THEN 15
    ELSE IF severity = "warning" THEN 5
    ELSE IF severity = "info" THEN 1
    ELSE 0

\* the keyword density check run whatever the keyword list is
RunChecks_always(text, resume_data, kws) ==
    <<_check_text_readability(text),
      _check_section_detection(text),
      _check_contact_parsing(text, resume_data),
      _check_date_formats(text),
      _check_special_characters(text),
      _check_structure(text),
      _check_section_names(text),
      _check_keyword_density(text, kws),
      _check_contact_completeness(text),
      _check_bullet_format(text)>>

\* the checks in the order the source runs them, each with what it returned;
\* kws is << >> both for keywords=None and for keywords=[]
RunChecks(text, resume_data, kws) ==
    <<_check_text_readability(text),
      _check_section_detection(text),
      _check_contact_parsing(text, resume_data),
      _check_date_formats(text),
      _check_special_characters(text),
      _check_structure(text),
      _check_section_names(text)>>
    \o (IF kws # << >> THEN <<_check_keyword_density(text, kws)>> ELSE << >>)
    \o <<_check_contact_completeness(text),
         _check_bullet_format(text)>>

\* the result once the checks have run
FinalScore(checks) ==
    LET issues == ConcatAll([k \in 1..Len(checks) |-> checks[k].issues])
        score ==
            100 - SumSeq([k \in 1..Len(issues) |-> Deduction(issues[k].severity)])
        compatibility_score == Max(0, Min(100, score))
        with_keywords == SelectSeq(checks, LAMBDA c : "keyword_density" \in DOMAIN c)
    IN  ATSValidationResult(
            compatibility_score >= 70,
            compatibility_score,
            issues,
            Cardinality({k \in 1..Len(checks) : checks[k].passed}),
            Len(checks),
            checks[2].section_detection,
            checks[3].contact_parsed,
            IF with_keywords = << >> THEN << >> ELSE with_keywords[1].keyword_density)

validate_resume_output(text, resume_data, kws) ==
    FinalScore(RunChecks(text, resume_data, kws))

-----------------------------------------------------------------------------
(* ats_validator.py: sanitize_for_ats                                       *)

\* ATS_BREAKING_CHARS.items() in dictionary order, for the keys of the
\* alphabet.  The arrow is left out of the texts that are sanitized: its
\* replacement "->" ends in the character that stands for U+201D here.
ATS_BREAKING_ITEMS ==
    <<<<U2605, "*">>, <<U25BA, "-">>, <<U25AA, "-">>, <<U25CF, "*">>,
      <<U25CB, "-">>, <<U200B, "">>>>

\* text.replace(old, new) for a one-character old
RECURSIVE replace(_, _, _)
replace(s, old, new) ==
    IF s = "" THEN ""
    ELSE (IF Ch(s, 1) = old THEN new ELSE Ch(s, 1))
             \o replace(SubSeq(s, 2, Len(s)), old, new)

\* the loop over ATS_BREAKING_CHARS.items(), from entry k on
RECURSIVE ReplaceBreakingChars(_, _)
ReplaceBreakingChars(s, k) ==
    IF k > Len(ATS_BREAKING_ITEMS) THEN s
    ELSE ReplaceBreakingChars(
             replace(s, ATS_BREAKING_ITEMS[k][1], ATS_BREAKING_ITEMS[k][2]),
             k + 1)

\* the end of the longest run of characters of class that starts at i
RECURSIVE RunEnd(_, _, _)
RunEnd(s, class, i) ==
    IF Ch(s, i) \in class THEN RunEnd(s, class, i + 1) ELSE i

\* re.sub(class{least,}, repl, s) from position i on
RECURSIVE SubRuns(_, _, _, _, _)
SubRuns(s, class, least, repl, i) ==
    IF i > Len(s) THEN ""
    ELSE IF RunEnd(s, class, i) - i >= least
         THEN repl \o SubRuns(s, class, least, repl, RunEnd(s, class, i))
    ELSE IF RunEnd(s, class, i) > i
         THEN SubSeq(s, i, RunEnd(s, class, i) - 1)
                  \o SubRuns(s, class, least, repl, RunEnd(s, class, i))
    ELSE Ch(s, i) \o SubRuns(s, class, least, repl, i + 1)

\* the two whitespace substitutions, in the order of the code
NormalizeWhitespace(s) ==
    SubRuns(SubRuns(s, {"\t", " "}, 2, " ", 1), {"\n"}, 3, "\n\n", 1)

\* re.sub of the zero-width class U+200B U+200C U+200D U+FEFF by ''
RemoveZeroWidth(s) == replace(replace(s, U200B, ""), U200C, "")

NormalizeQuotes(s) ==
    replace(replace(replace(replace(s, U2018, "'"), U2019, "'"),
                    U201C, "\""), U201D, "\"")

NormalizeDashes(s) == replace(replace(s, U2014, "--"), U2013, "-")

sanitize_for_ats(text) ==
    RemoveZeroWidth(
        NormalizeWhitespace(
            NormalizeDashes(NormalizeQuotes(ReplaceBreakingChars(text, 1)))))

-----------------------------------------------------------------------------
(* Python re: a pattern is a tree, and matching follows every alternative   *)
(* at once.  Positions are 1-based; position Len(s) + 1 is the end of s.    *)
(* In the lines of the resume parser "|", ":" and "&" stand for themselves  *)
(* (no such line holds U+25CB, U+200C or U+25AA).                           *)

ReLit(str) == [t |-> "lit", s |-> str]
ReSet(chars) == [t |-> "set", c |-> chars]
ReAny == [t |-> "any"]
ReBol == [t |-> "bol"]
ReEol == [t |-> "eol"]
ReCat(rs) == [t |-> "cat", rs |-> rs]
ReAlt(rs) == [t |-> "alt", rs |-> rs]
\* r{least,most}; most = -1 for no upper limit
ReRep(r, least, most) == [t |-> "rep", r |-> r, least |-> least, most |-> most]
ReOpt(r) == ReRep(r, 0, 1)
ReStar(r) == ReRep(r, 0, -1)
RePlus(r) == ReRep(r, 1, -1)

WordChars == Digits \cup UpperLetters \cup LowerLetters \cup {"_"}
ReW == ReSet(WordChars)       \* \w
ReS == ReSet(Whitespace)      \* \s
ReD == ReSet(Digits)          \* \d

\* the positions where a match of re that starts at a position of P can end
RECURSIVE ReEnds(_, _, _)
RECURSIVE ReCatEnds(_, _, _, _)
RECURSIVE ReRepEnds(_, _, _, _, _, _, _)
RECURSIVE ReRepStep(_, _, _, _, _, _, _)

ReEnds(re, s, P) ==
    CASE re.t = "lit" -> {p + Len(re.s) : p \in {q \in P : StartsAt(s, q, re.s)}}
      [] re.t = "set" -> {p + 1 : p \in {q \in P : Ch(s, q) \in re.c}}
      [] re.t = "any" ->
             {p + 1 : p \in {q \in P : q <= Len(s) /\ Ch(s, q) # "\n"}}
      [] re.t = "bol" -> P \cap {1}
      [] re.t = "eol" ->
             {p \in P : p = Len(s) + 1 \/ (p = Len(s) /\ Ch(s, p) = "\n")}
      [] re.t = "cat" -> ReCatEnds(re.rs, 1, s, P)
      [] re.t = "alt" -> UNION {ReEnds(re.rs[k], s, P) : k \in 1..Len(re.rs)}
      [] re.t = "rep" ->
             ReRepEnds(re.r, s, P, 0, re.least, re.most,
                       IF re.least = 0 THEN P ELSE {})

ReCatEnds(rs, k, s, P) ==
    IF k > Len(rs) \/ P = {} THEN P
    ELSE ReCatEnds(rs, k + 1, s, ReEnds(rs[k], s, P))

\* cur: the positions reached by exactly k repetitions; acc: the ends so far
ReRepEnds(r, s, cur, k, least, most, acc) ==
    IF cur = {} \/ (most >= 0 /\ k >= most) THEN acc
    ELSE ReRepStep(r, s, ReEnds(r, s, cur), k + 1, least, most, acc)

ReRepStep(r, s, reached, k, least, most, acc) ==
    IF k >= least
    THEN ReRepEnds(r, s, reached \ acc, k, least, most, acc \cup reached)
    ELSE ReRepEnds(r, s, reached, k, least, most, acc)

\* re.match(pattern, s) and re.search(pattern, s), as truth values
re_match(re, s) == ReEnds(re, s, {1}) # {}
re_search(re, s) == ReEnds(re, s, 1..(Len(s) + 1)) # {}
\* the same with re.IGNORECASE, for a pattern written in lower case
re_match_i(re, s) == re_match(re, lower(s))
re_search_i(re, s) == re_search(re, lower(s))

\* len(s.split())
WordCount(s) == Cardinality(WordStarts(s))

-----------------------------------------------------------------------------
(* resume_parser.py: section boundaries                                     *)

\* word\s+
ReWordWs(word) == ReCat(<<ReLit(word), RePlus(ReS)>>)
\* (?:\s*(?:&|and)\s*\w+)?
ReAndMore ==
    ReOpt(ReCat(<<ReStar(ReS), ReAlt(<<ReLit("&"), ReLit("and")>>),
                  ReStar(ReS), RePlus(ReW)>>))

\* section_patterns, searched with re.IGNORECASE in this order
SectionNames ==
    <<"experience", "education", "skills", "projects", "certifications",
      "summary">>

section_patterns ==
    [experience |->
         ReAlt(<<ReCat(<<ReBol, ReOpt(ReWordWs("work")), ReLit("experience")>>),
                 ReCat(<<ReBol, ReLit("employment")>>),
                 ReCat(<<ReBol, ReWordWs("professional"), ReLit("experience")>>),
                 ReCat(<<ReBol, ReWordWs("relevant"), ReLit("experience")>>)>>),
     education |-> ReCat(<<ReBol, ReLit("education")>>),
     skills |->
         ReCat(<<ReBol, ReOpt(ReWordWs("technical")), ReLit("skill"),
                 ReOpt(ReLit("s")), ReEol>>),
     projects |->
         ReCat(<<ReBol,
                 ReOpt(ReAlt(<<ReWordWs("personal"), ReWordWs("academic"),
                               ReWordWs("side"), ReWordWs("key"),
                               ReWordWs("selected"), ReWordWs("relevant"),
                               ReWordWs("notable")>>)),
                 ReLit("project"), ReOpt(ReLit("s")), ReAndMore, ReEol>>),
     certifications |->
         ReAlt(<<ReCat(<<ReBol, ReLit("certification"), ReOpt(ReLit("s"))>>),
                 ReCat(<<ReBol, ReLit("license"), ReOpt(ReLit("s")), ReStar(ReS),
                         ReOpt(ReAlt(<<ReLit("&"), ReLit("and")>>)), ReStar(ReS),
                         ReLit("certification"), ReOpt(ReLit("s"))>>)>>),
     summary |->
         ReAlt(<<ReCat(<<ReBol, ReOpt(ReWordWs("professional")), ReLit("summary")>>),
                 ReCat(<<ReBol, ReLit("objective")>>),
                 ReCat(<<ReBol, ReLit("profile")>>)>>)]

\* the least element of a non-empty set of integers
SetMin(S) == CHOOSE x \in S : \A y \in S : x <= y

\* Line indices are those of the code (0-based): lines[i] of the code is
\* lines[i + 1] here.  A boundaries dict is a function on the sections found.
_find_section_boundaries(lines) ==
    LET hits(section) ==
            {i \in 0..(Len(lines) - 1) :
                re_search_i(section_patterns[section], strip(lines[i + 1]))}
        found == {SectionNames[k] : k \in
                     {j \in 1..Len(SectionNames) : hits(SectionNames[j]) # {}}}
    IN  [section \in found |-> SetMin(hits(section))]

\* lst[start:end] for start >= 0
PySlice(lst, start, end) ==
    LET stop == IF end < 0 THEN Max(0, Len(lst) + end) ELSE Min(end, Len(lst))
    IN  IF start >= stop THEN << >> ELSE SubSeq(lst, start + 1, stop)

\* sorted(boundaries.values())
SortedStarts(boundaries) ==
    LET held == SelectSeq(SectionNames, LAMBDA s : s \in DOMAIN boundaries)
    IN  SortSeq([k \in 1..Len(held) |-> boundaries[held[k]]],
                LAMBDA a, b : a < b)

\* all_starts.index(x): the first place (0-based) that holds x
IndexOf(all_starts, x) ==
    SetMin({k \in 1..Len(all_starts) : all_starts[k] = x}) - 1

\* every section taken to run to the end of the document
SectionEnd_document(n, all_starts, idx) == n

\* the end of the slice: the next start in sorted order, or the end
SectionEnd(n, all_starts, idx) ==
    IF idx + 1 < Len(all_starts) THEN all_starts[idx + 2] ELSE n

_get_section_lines(lines, boundaries, section) ==
    IF section \notin DOMAIN boundaries THEN << >>
    ELSE PySlice(lines,
                 Max(0, boundaries[section] + 1),
                 SectionEnd(Len(lines), SortedStarts(boundaries),
                            IndexOf(SortedStarts(boundaries),
                                    boundaries[section])))

\* the patterns of _classify_line
SectionKw ==
    ReAlt(<<ReCat(<<ReBol, ReOpt(ReWordWs("work")), ReLit("experience"), ReEol>>),
            ReCat(<<ReBol, ReLit("education"), ReEol>>),
            ReCat(<<ReBol, ReOpt(ReWordWs("technical")), ReLit("skill"),
                    ReOpt(ReLit("s")), ReEol>>),
            ReCat(<<ReBol,
                    ReOpt(ReAlt(<<ReWordWs("personal"), ReWordWs("academic"),
                                  ReWordWs("key"), ReWordWs("selected")>>)),
                    ReLit("project"), ReOpt(ReLit("s")), ReAndMore, ReEol>>),
            ReCat(<<ReBol, ReLit("certification"), ReOpt(ReLit("s")), ReEol>>),
            ReCat(<<ReBol, ReOpt(ReWordWs("professional")), ReLit("summary"),
                    ReEol>>),
            ReCat(<<ReBol, ReLit("objective"), ReEol>>)>>)

\* [\w.-]+@[\w.-]+\.\w+
EmailPat ==
    ReCat(<<RePlus(ReSet(WordChars \cup {".", "-"})), ReLit("@"),
            RePlus(ReSet(WordChars \cup {".", "-"})), ReLit("."), RePlus(ReW)>>)

\* \(?\d{3}\)?[\s.-]?\d{3}[\s.-]?\d{4}
PhonePat ==
    ReCat(<<ReOpt(ReLit("(")), ReRep(ReD, 3, 3), ReOpt(ReLit(")")),
            ReOpt(ReSet(Whitespace \cup {".", "-"})), ReRep(ReD, 3, 3),
            ReOpt(ReSet(Whitespace \cup {".", "-"})), ReRep(ReD, 4, 4)>>)

\* ^[bullet glyphs]\s+ ; of the glyphs of the code the alphabet holds
\* U+2022, "-", "*" and U+25BA
BulletPat ==
    ReCat(<<ReBol, ReSet({U2022, "-", "*", U25BA}), RePlus(ReS)>>)

\* ^[\w\s/&]+:\s*\w+.*,\s*\w+
SkillPat ==
    ReCat(<<ReBol, RePlus(ReSet(WordChars \cup Whitespace \cup {"/", "&"})),
            ReLit(":"), ReStar(ReS), RePlus(ReW), ReStar(ReAny), ReLit(","),
            ReStar(ReS), RePlus(ReW)>>)

\* x\.?
ReDotted(c) == ReCat(<<ReLit(c), ReOpt(ReLit("."))>>)

edu_keywords ==
    ReAlt(<<ReLit("bachelor"), ReLit("master"),
            ReCat(<<ReDotted("b"), ReDotted("s")>>),
            ReCat(<<ReDotted("m"), ReDotted("s")>>),
            ReCat(<<ReLit("ph"), ReOpt(ReLit(".")), ReLit("d")>>),
            ReLit("associate"), ReLit("diploma"), ReLit("degree"),
            ReLit("university"), ReLit("college"), ReLit("institute")>>)

cert_keywords ==
    ReAlt(<<ReLit("certified"), ReLit("certification"), ReLit("certificate"),
            ReLit("license"), ReLit("credential"),
            ReCat(<<ReWordWs("aws"), ReLit("solutions")>>),
            ReCat(<<ReWordWs("google"), ReLit("cloud")>>),
            ReLit("azure"), ReLit("pmp"), ReLit("comptia"), ReLit("cisco")>>)

MonthAbbreviations ==
    <<"jan", "feb", "mar", "apr", "may", "jun", "jul", "aug", "sep", "oct",
      "nov", "dec">>

\* (?:Jan|...|Dec)\w*\.?\s+\d{4}|Present|Current|\d{4}\s*[-{en}{em}]\s*(?:\d{4}|Present)
date_pat ==
    ReAlt(<<ReCat(<<ReAlt([k \in 1..12 |-> ReLit(MonthAbbreviations[k])]),
                    ReStar(ReW), ReOpt(ReLit(".")), RePlus(ReS),
                    ReRep(ReD, 4, 4)>>),
            ReLit("present"), ReLit("current"),
            ReCat(<<ReRep(ReD, 4, 4), ReStar(ReS),
                    ReSet({"-", U2013, U2014}), ReStar(ReS),
                    ReAlt(<<ReRep(ReD, 4, 4), ReLit("present")>>)>>)>>)

\* ^[A-Z][\w\s&\'-]+\s*
ProjectNamePat ==
    ReCat(<<ReBol, ReSet(UpperLetters),
            RePlus(ReSet(WordChars \cup Whitespace \cup {"&", "'", "-"})),
            ReStar(ReS)>>)
ProjectPipePat == ReCat(<<ProjectNamePat, ReLit("|"), ReStar(ReS)>>)
ProjectDashPat == ReCat(<<ProjectNamePat, ReSet({U2014, U2013}), ReStar(ReS)>>)

\* the label of a stripped, non-empty line
ClassifyStripped(stripped) ==
    IF re_match_i(SectionKw, stripped) THEN "section_header"
    ELSE IF re_search(EmailPat, stripped) \/ re_search(PhonePat, stripped)
         THEN "contact"
    ELSE IF re_match(BulletPat, stripped) THEN "bullet"
    ELSE IF re_match(SkillPat, stripped) THEN "skill"
    ELSE IF re_search_i(edu_keywords, stripped) THEN "education"
    ELSE IF re_search_i(cert_keywords, stripped) /\ WordCount(stripped) <= 15
         THEN "certification"
    ELSE IF re_search_i(date_pat, stripped) /\ WordCount(stripped) <= 20
         THEN "experience_header"
    ELSE IF re_match(ProjectPipePat, stripped) THEN "project_header"
    ELSE IF re_match(ProjectDashPat, stripped) /\ WordCount(stripped) <= 15
         THEN "project_header"
    ELSE "None"

\* "None" stands for the None of the code
_classify_line(line) ==
    IF strip(line) = "" THEN "None" ELSE ClassifyStripped(strip(line))

\* the section a classification stands for
SectionOfClass ==
    [experience_header |-> "experience", education |-> "education",
     skill |-> "skills", project_header |-> "projects",
     certification |-> "certifications"]

\* the section line i is assigned to, or "None"
SmartSection(classification, boundaries) ==
    IF classification \in {"None", "section_header", "contact", "bullet"}
    THEN "None"
    ELSE IF SectionOfClass[classification] \notin DOMAIN boundaries
         THEN SectionOfClass[classification]
    ELSE "None"

\* the loop of _smart_section_boundaries from line i on; both branches of
\* the code's test on the previous line assign i - 1
RECURSIVE SmartLoop(_, _, _, _)
SmartLoop(lines, i, boundaries, assigned_starts) ==
    IF i >= Len(lines) THEN boundaries
    ELSE IF i \in assigned_starts
         THEN SmartLoop(lines, i + 1, boundaries, assigned_starts)
    ELSE IF SmartSection(_classify_line(lines[i + 1]), boundaries) = "None"
         THEN SmartLoop(lines, i + 1, boundaries, assigned_starts)
    ELSE SmartLoop(lines, i + 1,
                   (SmartSection(_classify_line(lines[i + 1]), boundaries)
                        :> (i - 1)) @@ boundaries,
                   assigned_starts \cup {i - 1})

_smart_section_boundaries(lines, boundaries) ==
    IF {"experience", "education", "skills", "projects", "certifications"}
           \subseteq DOMAIN boundaries
    THEN boundaries
    ELSE SmartLoop(lines, 0, boundaries,
                   {boundaries[s] : s \in DOMAIN boundaries})

-----------------------------------------------------------------------------
(* resume_parser.py: _parse_text                                            *)

\* how a call ends
Return(value) == [kind |-> "return", value |-> value]
Raise(exception) == [kind |-> "raise", exception |-> exception]

\* True and False as sum() counts them
BoolInt(b) == IF b THEN 1 ELSE 0

\* the flags of the quality check.  regex_result.name is never empty:
\* _parse_text_to_resume_data returns name or "Your Name".
HasName(r) == r.name # "" /\ r.name # "Your Name"
HasExperience(r) == Len(r.experience) > 0
HasSkills(r) == \E k \in 1..Len(r.skills) : Len(r.skills[k].skills) > 0
HasEducation(r) == Len(r.education) > 0
HasBullets(r) ==
    IF HasExperience(r)
    THEN \E k \in 1..Len(r.experience) : Len(r.experience[k].bullets) > 0
    ELSE FALSE

quality_score(r) ==
    BoolInt(HasName(r)) + BoolInt(HasExperience(r)) + BoolInt(HasSkills(r))
        + BoolInt(HasEducation(r))

\* a gate that asks for all four flags
RegexSufficient_all(r) ==
    quality_score(r) >= 4 /\ HasExperience(r) /\ HasBullets(r)

\* the test that lets _parse_text return the regex result at once
RegexSufficient(r) ==
    quality_score(r) >= 3 /\ HasExperience(r) /\ HasBullets(r)

\* an except clause that lets the exception go on to the caller
OnLlmException_reraise(regex) == Raise("Exception")

\* except Exception: the regex result is returned
OnLlmException(regex) == Return(regex)

-----------------------------------------------------------------------------
(* pdf_extractor.py: heuristic space recovery and the strategy ladder       *)

\* sum(len(w) for w in s.split())
NonWhitespaceCount(s) ==
    Cardinality({i \in 1..Len(s) : Ch(s, i) \notin Whitespace})

\* words and sum(len(w) for w in words) / len(words) < limit
AvgWordLenBelow(s, limit) ==
    WordCount(s) > 0 /\ NonWhitespaceCount(s) < limit * WordCount(s)

\* text[a:b] for 0 <= a
Substr(s, a, b) == IF a >= Min(b, Len(s)) THEN "" ELSE SubSeq(s, a + 1, Min(b, Len(s)))

UnitSuffixes ==
    {"s ", "s.", "s,", "s-", "s" \o U2192, "ms", "hr", "gb", "mb", "kb", "tb",
     "px", "pt", "em", "rem", "vh", "vw"}

\* pos is the code's 0-based position
_is_unit_suffix(text, pos) ==
    \/ \E unit \in UnitSuffixes :
           startswith(lower(Substr(text, pos, pos + 4)), unit)
    \/ pos = Len(text) - 1 /\ lower(Ch(text, pos + 1)) = "s"

KnownCompounds ==
    {"oauth2", "hl7", "h1", "h2", "h3", "s3", "ec2", "gpt4", "gpt3", "web3",
     "log4", "int8", "utf8", "md5", "sha256", "base64", "3s", "4s", "2s",
     "800ms", "100ms", "50ms"}

_is_known_compound(text, pos) ==
    \E compound \in KnownCompounds :
        Contains(lower(Substr(text, Max(0, pos - 5), Min(Len(text), pos + 6))),
                 compound)

\* whether _fix_line_spacing appends a space after line[i] (c) when
\* line[i + 1] (next_c) follows; i is the code's 0-based position
SpaceAfter(line, i, c, next_c) ==
    IF IsLower(c) /\ IsUpper(next_c) THEN TRUE
    ELSE IF IsAlpha(c) /\ IsDigit(next_c) /\ ~_is_known_compound(line, i)
         THEN TRUE
    ELSE IF IsDigit(c) /\ IsAlpha(next_c)
         THEN IsUpper(next_c) \/ ~_is_unit_suffix(line, i + 1)
    ELSE IF c = "%" /\ IsAlpha(next_c) THEN TRUE
    ELSE IF c = "." /\ IsUpper(next_c)
         THEN i >= 1 /\ ~IsUpper(Ch(line, i))
    ELSE FALSE

\* the characters the loop appends for positions a..b (0-based)
RECURSIVE FixRange(_, _, _)
FixRange(line, a, b) ==
    IF a > b THEN ""
    ELSE IF a = b
         THEN Ch(line, a + 1)
                  \o (IF a + 1 < Len(line)
                         /\ SpaceAfter(line, a, Ch(line, a + 1), Ch(line, a + 2))
                      THEN " " ELSE "")
    ELSE FixRange(line, a, (a + b) \div 2)
             \o FixRange(line, ((a + b) \div 2) + 1, b)

_fix_line_spacing(line) ==
    IF Len(line) < 3 THEN line
    ELSE IF AvgWordLenBelow(line, 10) THEN line
    ELSE FixRange(line, 0, Len(line) - 1)

_recover_spaces_heuristic(text) ==
    IF text = "" THEN text
    ELSE IF AvgWordLenBelow(text, 10) THEN text
    ELSE join("\n", [k \in 1..Len(SplitLines(text)) |->
                        _fix_line_spacing(SplitLines(text)[k])])

\* what a strategy gives: a text, or an exception
Text(t) == [kind |-> "text", text |-> t]
Raised == [kind |-> "raise"]

\* Strategy 1 keeps the text of _extract_with_char_gaps
AcceptCharGap(out) ==
    /\ out.kind = "text"
    /\ out.text # ""
    /\ Len(strip(out.text)) > 50
    /\ NonWhitespaceCount(out.text) < 15 * Max(WordCount(out.text), 1)

\* Strategy 2 keeps the text of _extract_with_pdfplumber
AcceptPdfplumber(out) ==
    /\ out.kind = "text"
    /\ out.text # ""
    /\ Len(strip(out.text)) > 50

\* Strategy 3 keeps the text of _extract_with_pypdf
AcceptPypdf(out) ==
    /\ out.kind = "text"
    /\ out.text # ""

-----------------------------------------------------------------------------
(* pdf_extractor.py: _extract_with_char_gaps.  x0 and x1 are in hundredths  *)
(* of a point, top in tenths of a point (round(top, 1) changes nothing),    *)
(* size in points.                                                          *)

PdfChar(char_text, top, x0, x1, size) ==
    [text |-> char_text, top |-> top, x0 |-> x0, x1 |-> x1, size |-> size]

\* sorted(chars, key=lambda c: (round(c["top"], 1), c["x0"])): a stable sort
KeyLess(a, b) == a.top < b.top \/ (a.top = b.top /\ a.x0 < b.x0)

RECURSIVE InsertSorted(_, _)
InsertSorted(sorted, c) ==
    IF sorted = << >> THEN <<c>>
    ELSE IF KeyLess(c, sorted[Len(sorted)])
         THEN Append(InsertSorted(SubSeq(sorted, 1, Len(sorted) - 1), c),
                     sorted[Len(sorted)])
    ELSE Append(sorted, c)

RECURSIVE SortChars(_)
SortChars(chars) ==
    IF chars = << >> THEN << >>
    ELSE InsertSorted(SortChars(SubSeq(chars, 1, Len(chars) - 1)),
                      chars[Len(chars)])

\* str.rstrip()
RECURSIVE rstrip(_)
rstrip(s) ==
    IF s # "" /\ Ch(s, Len(s)) \in Whitespace
    THEN rstrip(SubSeq(s, 1, Len(s) - 1))
    ELSE s

Abs(x) == IF x < 0 THEN -x ELSE x

\* a > b on floats whose exact values are a / d and b / d: where the exact
\* values are equal, the rounding of the difference and of the product by
\* 0.35 (or 0.4) decides, and both results occur
FloatGreater(a, b) == IF a = b THEN BOOLEAN ELSE {a > b}

\* avg_char_width * 0.35, times 100
SpaceThreshold(prev_char) == 35 * Max(prev_char.x1 - prev_char.x0, 300)

\* gap > space_threshold
SpaceDetected(prev_char, ch) ==
    FloatGreater(100 * (ch.x0 - prev_char.x1), SpaceThreshold(prev_char))

\* abs(char_top - prev_top) > char_size * 0.4
NewLineDetected(prev_top, ch) ==
    FloatGreater(Abs(ch.top - prev_top), 4 * ch.size)

\* all_lines after line_text is flushed
FlushLine(all_lines, current_line_chars) ==
    IF rstrip(current_line_chars) # ""
    THEN Append(all_lines, rstrip(current_line_chars))
    ELSE all_lines

\* The loop over chars_sorted from character k on; prev is << >> while
\* prev_char is None, and k = 1 while prev_top is None.  The result is the
\* set of the values all_lines can have after the page.
RECURSIVE CharLoop(_, _, _, _, _)
RECURSIVE CharStep(_, _, _, _, _, _)
RECURSIVE CharAppend(_, _, _, _, _, _)

CharLoop(chars, k, all_lines, current, prev) ==
    IF k > Len(chars) THEN {FlushLine(all_lines, current)}
    ELSE UNION {CharStep(chars, k, all_lines, current, prev, new_line) :
                   new_line \in (IF k = 1 THEN {FALSE}
                                 ELSE NewLineDetected(chars[k - 1].top, chars[k]))}

CharStep(chars, k, all_lines, current, prev, new_line) ==
    IF new_line
    THEN CharAppend(chars, k, FlushLine(all_lines, current), "", << >>, FALSE)
    ELSE UNION {CharAppend(chars, k, all_lines, current, prev, space) :
                   space \in (IF prev = << >> THEN {FALSE}
                              ELSE SpaceDetected(prev[1], chars[k]))}

CharAppend(chars, k, all_lines, current, prev, space) ==
    CharLoop(chars, k + 1, all_lines,
             current \o (IF space THEN " " ELSE "") \o chars[k].text,
             <<chars[k]>>)

\* the loop over pdf.pages from page p on
RECURSIVE PageLoop(_, _, _)
PageLoop(pages, p, all_lines) ==
    IF p > Len(pages) THEN {all_lines}
    ELSE IF pages[p] = << >> THEN PageLoop(pages, p + 1, all_lines)
    ELSE UNION {PageLoop(pages, p + 1, lines) :
                   lines \in CharLoop(SortChars(pages[p]), 1, all_lines, "", << >>)}

\* the texts the call can return
_extract_with_char_gaps(pages) ==
    {join("\n", lines) : lines \in PageLoop(pages, 1, << >>)}

-----------------------------------------------------------------------------
(* resume_generator.py: generate_resume and the session's ResumeData        *)
(*                                                                          *)
(* get_resume_data hands out the object held in resume_data_cache, so what  *)
(* generate_resume and the preparers assign to it or to its entries is      *)
(* assigned to the session's data.  The entries of one resume differ in     *)
(* title / name, so an entry is found in a list by value as by object.      *)
(* What the language model answers is an input: Return(value) for an answer *)
(* that parsed, Raise(error) for a failed request.                          *)

\* from .llm_client import _inject_keywords_into_bullets inside src/llm:
\* there is no module src.llm.llm_client
InjectImport == Raise("ModuleNotFoundError")

\* an answer parsed from JSON: the list looked for, or something else
List(items) == [is_list |-> TRUE, items |-> items]
NotAList == [is_list |-> FALSE]
IsList(value) == value.is_list

\* sum(len(exp.bullets) for exp in resume_data.experience)
total_bullets(resume_data) ==
    SumSeq([i \in 1..Len(resume_data.experience) |->
               Len(resume_data.experience[i].bullets)])

should_condense(resume_data) ==
    \/ Len(resume_data.experience) > 4
    \/ total_bullets(resume_data) > 20
    \/ Len(resume_data.projects) > 4

\* condense_resume_for_one_page: without a client the argument itself comes
\* back, with one _apply_smart_condensation builds a new ResumeData whether
\* the request succeeds or not
CondensedIsNewObject(client) == client

\* [experiences[i] for i in indices if 0 <= i < len(experiences)]
RECURSIVE Ranked(_, _)
Ranked(experiences, indices) ==
    IF indices = << >> THEN << >>
    ELSE (IF 0 <= Head(indices) /\ Head(indices) < Len(experiences)
          THEN <<experiences[Head(indices) + 1]>> ELSE << >>)
         \o Ranked(experiences, Tail(indices))

\* for exp in experiences: if exp not in ranked: ranked.append(exp)
RECURSIVE AppendUnranked(_, _, _)
AppendUnranked(ranked, experiences, k) ==
    IF k > Len(experiences) THEN ranked
    ELSE AppendUnranked(
             IF \E j \in 1..Len(ranked) : ranked[j] = experiences[k]
             THEN ranked ELSE Append(ranked, experiences[k]),
             experiences, k + 1)

RankedTop(experiences, response, top_n) ==
    IF response.kind = "return" /\ IsList(response.value)
    THEN Take(AppendUnranked(Ranked(experiences, response.value.items),
                             experiences, 1), top_n)
    ELSE Take(experiences, top_n)

match_experience_with_jd_optimized(experiences, top_n, fast_mode, client, response) ==
    IF fast_mode \/ Len(experiences) <= top_n THEN Take(experiences, top_n)
    ELSE IF ~client THEN Take(experiences, top_n)
    ELSE RankedTop(experiences, response, top_n)

match_experience_with_jd_async(experiences, top_n, client, response) ==
    IF ~client \/ Len(experiences) <= top_n THEN Take(experiences, top_n)
    ELSE RankedTop(experiences, response, top_n)

\* env: contains = _bullets_contain_keywords, cached = cache_get(cache_key),
\* response = the model's answer
rewrite_experience_bullets_optimized(experience, fast_mode, client, env) ==
    IF experience.bullets = << >> THEN Return(<< >>)
    ELSE IF fast_mode THEN InjectImport
    ELSE IF env.contains THEN Return(experience.bullets)
    ELSE IF env.cached # None THEN Return(env.cached[1])
    ELSE IF ~client THEN InjectImport
    ELSE IF env.response.kind = "raise" THEN InjectImport
    ELSE IF IsList(env.response.value) THEN Return(Take(env.response.value.items, 6))
    ELSE Return(<< >>)

rewrite_experience_bullets_async(experience, client, env) ==
    IF ~client THEN InjectImport
    ELSE IF experience.bullets = << >> THEN Return(<< >>)
    ELSE IF env.response.kind = "raise" THEN InjectImport
    ELSE IF IsList(env.response.value) THEN Return(Take(env.response.value.items, 6))
    ELSE Return(experience.bullets)

\* env: contains = at least three keywords in the description
rewrite_project_description_optimized(project, fast_mode, client, env) ==
    IF project.description = "" THEN ""
    ELSE IF fast_mode THEN project.description
    ELSE IF env.contains THEN project.description
    ELSE IF env.cached # None THEN env.cached[1]
    ELSE IF ~client THEN project.description
    ELSE IF env.response.kind = "raise" THEN project.description
    ELSE env.response.value

rewrite_project_description_async(project, client, env) ==
    IF ~client \/ project.description = "" THEN project.description
    ELSE IF env.response.kind = "raise" THEN project.description
    ELSE env.response.value

\* for i, exp in enumerate(prioritized_experiences): exp.bullets = ...
\* The entries are the objects of resume_data.experience.
RECURSIVE AssignBullets(_, _, _, _)
AssignBullets(experience, prioritized, rewritten, i) ==
    IF i > Len(prioritized) THEN experience
    ELSE AssignBullets(
             [k \in 1..Len(experience) |->
                 IF experience[k].title = prioritized[i].title
                 THEN [experience[k] EXCEPT !.bullets = rewritten[i].value]
                 ELSE experience[k]],
             prioritized, rewritten, i + 1)

\* the objects of the prioritized list as the assignments left them
Entry(experience, title) ==
    experience[CHOOSE k \in 1..Len(experience) : experience[k].title = title]

Prioritized(experience, prioritized) ==
    [i \in 1..Len(prioritized) |-> Entry(experience, prioritized[i].title)]

\* for i, project in enumerate(projects_to_process): project.description = ...
AssignDescriptions(projects, descriptions) ==
    [k \in 1..Len(projects) |->
        IF k <= Len(descriptions)
        THEN [projects[k] EXCEPT !.description = descriptions[k]]
        ELSE projects[k]]

\* asyncio.gather without return_exceptions: the first exception is the
\* preparer's, and nothing has been assigned yet
Prepared(resume_data, prioritized, rewritten, descriptions) ==
    IF \E i \in 1..Len(rewritten) : rewritten[i].kind = "raise"
    THEN InjectImport
    ELSE Return([experience |->
                     Prioritized(AssignBullets(resume_data.experience,
                                               prioritized, rewritten, 1),
                                 prioritized),
                 projects |-> Take(AssignDescriptions(resume_data.projects,
                                                      descriptions),
                                   Len(descriptions)),
                 resume_data |->
                     [resume_data EXCEPT
                        !.experience = AssignBullets(resume_data.experience,
                                                     prioritized, rewritten, 1),
                        !.projects = AssignDescriptions(resume_data.projects,
                                                        descriptions)]])

\* env.bullets and env.projects: the environment of the i-th rewrite
OptimizedRewrites(resume_data, prioritized, fast_mode, client, env, max_projects) ==
    Prepared(resume_data, prioritized,
             [i \in 1..Len(prioritized) |->
                 rewrite_experience_bullets_optimized(prioritized[i], fast_mode,
                                                      client, env.bullets[i])],
             [i \in 1..Min(max_projects, Len(resume_data.projects)) |->
                 rewrite_project_description_optimized(resume_data.projects[i],
                                                       fast_mode, client,
                                                       env.projects[i])])

prepare_resume_data_optimized(resume_data, job_description, fast_mode, client, env) ==
    OptimizedRewrites(
        resume_data,
        IF ~fast_mode /\ job_description # "" /\ Len(resume_data.experience) > 3
        THEN match_experience_with_jd_optimized(resume_data.experience, 3,
                                                fast_mode, client, env.ranking)
        ELSE Take(resume_data.experience, 3),
        fast_mode, client, env, 3)

ParallelRewrites(resume_data, prioritized, client, env) ==
    Prepared(resume_data, prioritized,
             [i \in 1..Len(prioritized) |->
                 rewrite_experience_bullets_async(prioritized[i], client,
                                                  env.bullets[i])],
             [i \in 1..Min(4, Len(resume_data.projects)) |->
                 rewrite_project_description_async(resume_data.projects[i],
                                                   client, env.projects[i])])

prepare_resume_data_parallel(resume_data, job_description, client, env) ==
    ParallelRewrites(
        resume_data,
        IF job_description # "" /\ Len(resume_data.experience) > 3
        THEN match_experience_with_jd_async(resume_data.experience, 4, client,
                                            env.ranking)
        ELSE Take(resume_data.experience, 4),
        client, env)

\* resume_data = results[i] rebinds the local name to the condensed object;
\* resume_data.experience = ... and resume_data.projects = ... then assign to
\* whatever the name is bound to
AssignPrepared(resume_data, prepared, condensed) ==
    IF prepared.kind = "raise" THEN resume_data
    ELSE IF condensed THEN prepared.value.resume_data
    ELSE [prepared.value.resume_data EXCEPT
            !.experience = prepared.value.experience,
            !.projects = prepared.value.projects]

\* the session's ResumeData once generate_resume has returned
generate_resume(resume_data, job_description, use_parallel, fast_mode, optimized, client, env) ==
    IF ~(use_parallel /\ job_description # "") THEN resume_data
    ELSE AssignPrepared(
             resume_data,
             IF optimized
             THEN prepare_resume_data_optimized(resume_data, job_description,
                                                fast_mode, client, env)
             ELSE prepare_resume_data_parallel(resume_data, job_description,
                                               client, env),
             should_condense(resume_data) /\ CondensedIsNewObject(client))

-----------------------------------------------------------------------------
(* tasks/queue.py: TaskQueue                                                *)
(*                                                                          *)
(* Every submitted function runs in an asyncio task of its own, _execute.   *)
(* A step of the model is what the event loop runs without switching: from  *)
(* where a task was suspended to where it suspends next.  asyncio_task[t]   *)
(* is [pc, must_cancel]: pc is "created" (never run), "acquire" (suspended  *)
(* in Semaphore.acquire), "func" (suspended inside entry.func) or "done";   *)
(* must_cancel says that the task's next step starts with CancelledError    *)
(* (Task.cancel was called).  The semaphore is asyncio.Semaphore: _value    *)
(* and _waiters, the futures of the suspended acquirers in arrival order,   *)
(* each "pending", given its "result", or "cancelled".                      *)
(* A function ends by returning, by raising an Exception, or with           *)
(* asyncio.CancelledError.                                                  *)

\* class TaskStatus
PENDING == "pending"
RUNNING == "running"
COMPLETED == "completed"
FAILED == "failed"
CANCELLED == "cancelled"

\* _TaskEntry(task_id, func, args, kwargs)
_TaskEntry ==
    [status |-> PENDING, result |-> None, error |-> None, completed_at |-> 0]

\* asyncio.Semaphore(self._max_concurrency)
Semaphore(value) == [_value |-> value, _waiters |-> << >>]

_get_semaphore(semaphore, max_concurrency) ==
    IF semaphore = None THEN Semaphore(max_concurrency) ELSE semaphore[1]

\* Semaphore.locked: no slot left, or an acquirer is in line
locked_never(sem) == FALSE

locked(sem) ==
    \/ sem._value = 0
    \/ \E i \in 1..Len(sem._waiters) : sem._waiters[i].fut # "cancelled"

Waiter(sem, t) ==
    sem._waiters[CHOOSE i \in 1..Len(sem._waiters) : sem._waiters[i].task = t]

RECURSIVE WithoutTask(_, _)
WithoutTask(waiters, t) ==
    IF waiters = << >> THEN << >>
    ELSE (IF Head(waiters).task = t THEN << >> ELSE <<Head(waiters)>>)
         \o WithoutTask(Tail(waiters), t)

\* self._waiters.remove(fut)
RemoveWaiter(sem, t) == [sem EXCEPT !._waiters = WithoutTask(@, t)]

PendingWaiters(sem) ==
    {i \in 1..Len(sem._waiters) : sem._waiters[i].fut = "pending"}

\* Semaphore._wake_up_next: the first waiter not done gets the slot
_wake_up_next(sem) ==
    IF PendingWaiters(sem) = {} THEN sem
    ELSE [sem EXCEPT !._value = @ - 1,
                     !._waiters[SetMin(PendingWaiters(sem))].fut = "result"]

\* Semaphore.release, at the end of async with
release_kept(sem) == sem

release(sem) == _wake_up_next([sem EXCEPT !._value = @ + 1])

\* acquire resumed with the future's result
Acquired(sem, t) ==
    IF RemoveWaiter(sem, t)._value > 0
    THEN _wake_up_next(RemoveWaiter(sem, t)) ELSE RemoveWaiter(sem, t)

\* acquire resumed with CancelledError: a slot already given is handed on
AcquireCancelled(sem, t) ==
    IF Waiter(sem, t).fut # "cancelled"
    THEN _wake_up_next([RemoveWaiter(sem, t) EXCEPT !._value = @ + 1])
    ELSE RemoveWaiter(sem, t)

Exception(type, message) == [type |-> type, message |-> message]
CancelledError == Exception("CancelledError", "")

\* f"{type(exc).__name__}: {exc}"
ErrorText(exc) == exc.type \o ": " \o exc.message

\* the try statement of _execute once entry.func ended with outcome; its
\* finally clause sets completed_at
Finished(entry, outcome) ==
    IF outcome.kind = "return"
    THEN [entry EXCEPT !.result = Some(outcome.value), !.status = COMPLETED,
                       !.completed_at = time]
    ELSE IF outcome.exception = CancelledError
    THEN [entry EXCEPT !.status = CANCELLED, !.completed_at = time]
    ELSE [entry EXCEPT !.status = FAILED,
                       !.error = Some(ErrorText(outcome.exception)),
                       !.completed_at = time]

\* TaskQueue.get_result for a task held in memory
get_result(entry) ==
    [status |-> entry.status,
     result |-> IF entry.status = COMPLETED THEN entry.result ELSE None,
     error |-> entry.error]

\* Task.cancel as TaskQueue.cancel calls it: a pending future of acquire is
\* cancelled, and the task's next step raises CancelledError
TaskCancel(sem, t) ==
    IF sem # None /\ \E i \in 1..Len(sem[1]._waiters) :
                        /\ sem[1]._waiters[i].task = t
                        /\ sem[1]._waiters[i].fut = "pending"
    THEN Some([sem[1] EXCEPT
                 !._waiters = [i \in 1..Len(@) |->
                                  IF @[i].task = t
                                  THEN [@[i] EXCEPT !.fut = "cancelled"]
                                  ELSE @[i]]])
    ELSE sem

-----------------------------------------------------------------------------
(* middleware.py: RateLimitMiddleware                                       *)
(*                                                                          *)
(* The Supabase layer is absent (settings.supabase_url is empty by          *)
(* default), so _load_from_db and _record_hit_db leave the hits alone.      *)

\* the default of the constructor
DefaultExcludePaths == <<"/health", "/static", "/", "/docs", "/openapi.json">>

\* any(path.startswith(p) for p in self.exclude_paths)
Excluded(path, exclude) ==
    \E i \in 1..Len(exclude) : startswith(path, exclude[i])

\* self._hits[ip] of the defaultdict
HitsOf(hits, ip) == IF ip \in DOMAIN hits THEN hits[ip] ELSE << >>

\* [t for t in self._hits[ip] if t > cutoff]
Recent(timestamps, cutoff) == SelectSeq(timestamps, LAMBDA t : t > cutoff)

\* del self._hits[ip]
WithoutIp(hits, ip) ==
    IF DOMAIN hits \ {ip} = {} THEN << >>
    ELSE [i \in DOMAIN hits \ {ip} |-> hits[i]]

\* self._hits[ip] = timestamps
WithIp(hits, ip, timestamps) ==
    [i \in DOMAIN hits \cup {ip} |-> IF i = ip THEN timestamps ELSE hits[i]]

\* _prune: the hits it leaves
_prune(hits, ip, now, window) ==
    IF Recent(HitsOf(hits, ip), now - window) = << >>
    THEN WithoutIp(hits, ip)
    ELSE WithIp(hits, ip, Recent(HitsOf(hits, ip), now - window))

\* _load_from_db, then _prune's self._loaded_from_db.discard(ip)
LoadedAfterPrune(hits, loaded, ip, now, window) ==
    IF Recent(HitsOf(hits, ip), now - window) = << >>
    THEN loaded \ {ip}
    ELSE loaded \cup {ip}

\* len(self._hits[ip]) >= self.max_requests
LimitReached(hits, ip, limit) == Len(HitsOf(hits, ip)) >= limit

-----------------------------------------------------------------------------
(* auth.py: the key store                                                   *)

\* _init_auth: the static keys are loaded when no key is held and they were
\* not loaded before
NeedsLoad(valid_keys, loaded) == valid_keys = {} /\ ~loaded

\* _valid_keys after _init_auth
_init_auth(valid_keys, loaded, static_keys) ==
    IF NeedsLoad(valid_keys, loaded) THEN valid_keys \cup static_keys ELSE valid_keys

\* validate_key once _init_auth ran
validate_key(valid_keys, key) ==
    IF valid_keys = {} THEN TRUE ELSE key \in valid_keys

\* require_api_key once _init_auth ran; key is None when the request has none
require_api_key(valid_keys, key) ==
    IF valid_keys = {} THEN Return("open_access")
    ELSE IF key = None THEN Raise(401)
    ELSE IF ~validate_key(valid_keys, key[1]) THEN Raise(403)
    ELSE Return(key[1])

-----------------------------------------------------------------------------
(* storage/local.py: LocalStorage                                           *)
(*                                                                          *)
(* A path is the sequence of its names below the root; a key is a relative  *)
(* or absolute sequence of names, ".." among them.  The file system has no  *)
(* symbolic links.                                                          *)

Key(parts) == [absolute |-> FALSE, parts |-> parts]
AbsoluteKey(parts) == [absolute |-> TRUE, parts |-> parts]

\* self.base_dir / key
Joined(base_dir, key) ==
    IF key.absolute THEN key.parts ELSE base_dir \o key.parts

\* Path.resolve: ".." steps up, never above the root
RECURSIVE Resolved(_, _)
Resolved(done, parts) ==
    IF parts = << >> THEN done
    ELSE IF Head(parts) = ".."
    THEN Resolved(IF done = << >> THEN << >> ELSE SubSeq(done, 1, Len(done) - 1),
                  Tail(parts))
    ELSE Resolved(Append(done, Head(parts)), Tail(parts))

\* str(path)
RECURSIVE PathStr(_)
PathStr(path) ==
    IF path = << >> THEN "" ELSE "/" \o Head(path) \o PathStr(Tail(path))

PathText(path) == IF path = << >> THEN "/" ELSE PathStr(path)

\* path.parent
Parent(path) == IF path = << >> THEN << >> ELSE SubSeq(path, 1, Len(path) - 1)

\* path and the directories above it
Ancestors(path) == {SubSeq(path, 1, n) : n \in 0..Len(path)}

\* LocalStorage._resolve
_resolve(base_dir, key) ==
    IF ~startswith(PathText(Resolved(<< >>, Joined(base_dir, key))), PathText(base_dir))
    THEN Raise("ValueError")
    ELSE Return(Resolved(<< >>, Joined(base_dir, key)))

\* path.exists() and path.is_file()
IsFile(fs, path) == path \in DOMAIN fs

\* path.write_bytes(data)
Written(fs, path, data) ==
    [p \in DOMAIN fs \cup {path} |-> IF p = path THEN data ELSE fs[p]]

\* path.unlink()
Unlinked(fs, path) ==
    IF DOMAIN fs \ {path} = {} THEN << >>
    ELSE [p \in DOMAIN fs \ {path} |-> fs[p]]

-----------------------------------------------------------------------------
(* api/deps.py, api/generate.py, cleanup.py: the in-memory session stores   *)

\* dict.pop(key, None) for every key of keys
Popped(dict, keys) ==
    IF DOMAIN dict \ keys = {} THEN << >>
    ELSE [k \in DOMAIN dict \ keys |-> dict[k]]

\* dict[key] = value
Stored(dict, key, value) ==
    [k \in DOMAIN dict \cup {key} |-> IF k = key THEN value ELSE dict[k]]

\* f"{session_id}:latest"
LatestKey(session_id) == session_id \o ":latest"

\* a cleanup that also expires a session of exactly the maximal age
expired_at_max_age(timestamps, now, max_age_seconds) ==
    {session_id \in DOMAIN timestamps : now - timestamps[session_id] >= max_age_seconds}

\* _cleanup_expired_sessions: the list expired
expired(timestamps, now, max_age_seconds) ==
    {session_id \in DOMAIN timestamps : now - timestamps[session_id] > max_age_seconds}

\* _cleanup_expired_sessions: keys_to_remove, over the expired sessions
keys_to_remove(analyses, sessions) ==
    {k \in DOMAIN analyses : \E session_id \in sessions : startswith(k, session_id)}

\* _save_version: analysis.overall_score if analysis else 0
ats_score(analyses, session_id) ==
    IF LatestKey(session_id) \in DOMAIN analyses
    THEN analyses[LatestKey(session_id)].overall_score
    ELSE 0

\* the versions list of the session as _save_version finds or creates it
VersionsOf(versions, session_id) ==
    IF session_id \in DOMAIN versions THEN versions[session_id] ELSE << >>

\* Keep only last 20 versions
LastVersions(list, keep) ==
    IF Len(list) > keep THEN SubSeq(list, Len(list) - keep + 1, Len(list)) ELSE list

\* resume_versions after _save_version
_save_version(versions, analyses, session_id, keep) ==
    Stored(versions, session_id,
           LastVersions(Append(VersionsOf(versions, session_id),
                               [ats_score |-> ats_score(analyses, session_id)]),
                        keep))

-----------------------------------------------------------------------------
(* resume_parser.py: _extract_experience                                    *)
(* The lines handed over are stripped and non-empty.  A group of a match is *)
(* found from the positions where the rest of the pattern can still match:  *)
(* a lazy group ends at the first of them, a greedy one at the last.  No    *)
(* line of the model holds U+25E6 or U+25AA.                                *)

SetMax(S) == CHOOSE x \in S : \A y \in S : x >= y

\* whether re matches s from position p on
MatchesFrom(re, s, p) == ReEnds(re, s, {p}) # {}

\* the first end of group, started at p, after which rest matches
LazyEnd(group, rest, s, p) ==
    SetMin({e \in ReEnds(group, s, {p}) : MatchesFrom(rest, s, e)})

\* the text between the positions p and e, stripped as .group(n).strip()
GroupText(s, p, e) == IF e <= p THEN "" ELSE strip(SubSeq(s, p, e - 1))

MonthNames ==
    <<"Jan", "Feb", "Mar", "Apr", "May", "Jun", "Jul", "Aug", "Sep", "Oct",
      "Nov", "Dec">>

\* [A-Z][\w\s/&-]+? and [A-Z][\w\s&.-]+?, and the same under re.IGNORECASE
TitleGroup(letters) ==
    ReCat(<<ReSet(letters),
            RePlus(ReSet(WordChars \cup Whitespace \cup {"/", "&", "-"}))>>)
CompanyGroup(letters) ==
    ReCat(<<ReSet(letters),
            RePlus(ReSet(WordChars \cup Whitespace \cup {"&", ".", "-"}))>>)

\* (?:Jan|...|Dec)[\w\s{en}\-]+(?:Present|\d{4}), then \s*$
TitleDates(months, present) ==
    ReCat(<<ReAlt([k \in 1..12 |-> ReLit(months[k])]),
            RePlus(ReSet(WordChars \cup Whitespace \cup {U2013, "-"})),
            ReAlt(<<ReLit(present), ReRep(ReD, 4, 4)>>)>>)
ToEnd == ReCat(<<ReStar(ReS), ReEol>>)

\* \s*[|,]\s*  and  \s*,\s*
PipeOrComma == ReCat(<<ReStar(ReS), ReSet({"|", ","}), ReStar(ReS)>>)
Comma == ReCat(<<ReStar(ReS), ReLit(","), ReStar(ReS)>>)

\* Format 1, after the company: (?:\s{2,}|\s*[|,]\s*|\s+)(dates)?\s*$
AfterCompany1 == ReAlt(<<ReRep(ReS, 2, -1), PipeOrComma, RePlus(ReS)>>)
Tail1 ==
    ReCat(<<AfterCompany1, ReOpt(TitleDates(MonthNames, "Present")), ToEnd>>)
Format1 ==
    ReCat(<<TitleGroup(UpperLetters), PipeOrComma, CompanyGroup(UpperLetters),
            Tail1>>)

\* Format 2, after the company: \s*,\s*(?:[A-Z][\w\s]+,\s*[A-Z]{2}\s*,?\s*)?
\* and the dates, all under re.IGNORECASE
Location ==
    ReCat(<<ReSet(LowerLetters), RePlus(ReSet(WordChars \cup Whitespace)),
            ReLit(","), ReStar(ReS), ReRep(ReSet(LowerLetters), 2, 2),
            ReStar(ReS), ReOpt(ReLit(",")), ReStar(ReS)>>)
AfterCompany2 == ReCat(<<Comma, ReOpt(Location)>>)
Tail2 ==
    ReCat(<<AfterCompany2, TitleDates(MonthAbbreviations, "present"), ToEnd>>)
Format2 ==
    ReCat(<<TitleGroup(LowerLetters), Comma, CompanyGroup(LowerLetters), Tail2>>)

\* Format 3: ^([A-Z][\w\s/&-]+?)\s+(?:at|@)\s+([A-Z][\w\s&.-]+)
AtSign == ReCat(<<RePlus(ReS), ReAlt(<<ReLit("at"), ReLit("@")>>), RePlus(ReS)>>)
Format3 ==
    ReCat(<<TitleGroup(UpperLetters), AtSign, CompanyGroup(UpperLetters)>>)

\* which of the three formats gives title_match: 1, 2, 3, or 0 for none
TitleFormat(line) ==
    IF MatchesFrom(Format1, line, 1) THEN 1
    ELSE IF MatchesFrom(Format2, lower(line), 1) THEN 2
    ELSE IF MatchesFrom(Format3, line, 1) THEN 3
    ELSE 0

\* where the company starts: after the separator that follows the title
CompanyStart(sep, company, tail, s, title_end) ==
    SetMax({c \in ReEnds(sep, s, {title_end}) :
               MatchesFrom(ReCat(<<company, tail>>), s, c)})

\* where the dates start after the company, or 0 when group 3 took no part
DatesStart(after, dates, s, company_end) ==
    IF \E p \in ReEnds(after, s, {company_end}) :
           MatchesFrom(ReCat(<<dates, ToEnd>>), s, p)
    THEN SetMax({p \in ReEnds(after, s, {company_end}) :
                    MatchesFrom(ReCat(<<dates, ToEnd>>), s, p)})
    ELSE 0

\* the Experience a title line opens, for the groups of one format; s is the
\* text the pattern ran on (the line, or the line in lower case)
Opened(line, s, title, sep, company, after, dates, tail) ==
    LET title_end == LazyEnd(title, ReCat(<<sep, company, tail>>), s, 1)
        company_start == CompanyStart(sep, company, tail, s, title_end)
        company_end == LazyEnd(company, tail, s, company_start)
        dates_start == DatesStart(after, dates, s, company_end)
    IN  Experience(GroupText(line, 1, title_end),
                   GroupText(line, company_start, company_end),
                   IF dates_start = 0 THEN ""
                   ELSE GroupText(line, dates_start, Len(line) + 1),
                   << >>)

\* Format 3 has no third group, and its company is greedy
Opened3(line) ==
    LET title_end ==
            LazyEnd(TitleGroup(UpperLetters),
                    ReCat(<<AtSign, CompanyGroup(UpperLetters)>>), line, 1)
        company_start ==
            CompanyStart(AtSign, CompanyGroup(UpperLetters), ReCat(<< >>),
                         line, title_end)
    IN  Experience(GroupText(line, 1, title_end),
                   GroupText(line, company_start,
                             SetMax(ReEnds(CompanyGroup(UpperLetters), line,
                                           {company_start}))),
                   "", << >>)

OpenedBy(line, format) ==
    CASE format = 1 ->
             Opened(line, line, TitleGroup(UpperLetters), PipeOrComma,
                    CompanyGroup(UpperLetters), AfterCompany1,
                    TitleDates(MonthNames, "Present"), Tail1)
      [] format = 2 ->
             Opened(line, lower(line), TitleGroup(LowerLetters), Comma,
                    CompanyGroup(LowerLetters), AfterCompany2,
                    TitleDates(MonthAbbreviations, "present"), Tail2)
      [] OTHER -> Opened3(line)

\* the fallback for dates on their own line, searched with re.IGNORECASE:
\* (Mon\w*\.?\s+\d{4})\s*[-{en}{em}]\s*(Mon\w*\.?\s+\d{4}|Present|Current)
MonthYear ==
    ReCat(<<ReAlt([k \in 1..12 |-> ReLit(MonthAbbreviations[k])]), ReStar(ReW),
            ReOpt(ReLit(".")), RePlus(ReS), ReRep(ReD, 4, 4)>>)
DateRange ==
    ReCat(<<MonthYear, ReStar(ReS), ReSet({"-", U2013, U2014}), ReStar(ReS),
            ReAlt(<<MonthYear, ReLit("present"), ReLit("current")>>)>>)

\* date_match.group(0), or "" when the search finds nothing
DateRangeFound(line, starts) ==
    IF starts = {} THEN ""
    ELSE SubSeq(line, SetMin(starts),
                SetMax(ReEnds(DateRange, lower(line), {SetMin(starts)})) - 1)
date_match(line) ==
    DateRangeFound(line, {p \in 1..Len(line) : MatchesFrom(DateRange, lower(line), p)})

\* ^[{bullet}\-\*{pointer}]\s*(.*) : whether it matches, and group(1).strip()
ExperienceBulletGlyphs == {U2022, "-", "*", U25BA}
bullet_match(line) == Ch(line, 1) \in ExperienceBulletGlyphs
BulletText(line) == strip(SubSeq(line, 2, Len(line)))

\* ^[A-Z][\w\s/&-]+?\s*[|,@] : a line that looks like the start of an entry
StartsEntry ==
    ReCat(<<TitleGroup(UpperLetters), ReStar(ReS), ReSet({"|", ",", "@"})>>)

\* the locals of the loop: current (None or Some), bullets,
\* multi_line_bullet and experience_list
ExperienceLoop(entry, list, wrapped, done) ==
    [current |-> entry, bullets |-> list, multi_line_bullet |-> wrapped,
     experience_list |-> done]

\* bullets with the bullet being gathered, as it is flushed
Flushed(loop) ==
    IF loop.multi_line_bullet # ""
    THEN Append(loop.bullets, strip(loop.multi_line_bullet))
    ELSE loop.bullets

\* experience_list with the current entry and its bullets
Saved(loop) ==
    IF loop.current = None THEN loop.experience_list
    ELSE Append(loop.experience_list,
                [loop.current[1] EXCEPT !.bullets = Flushed(loop)])

\* the branch "if title_match"
OnTitle(loop, line, format) ==
    ExperienceLoop(Some(OpenedBy(line, format)), << >>,
                   IF loop.current = None THEN loop.multi_line_bullet ELSE "",
                   Saved(loop))

\* the branch "Bullet points" for a line that is no title and no date line
OnText(loop, line) ==
    IF bullet_match(line)
    THEN [loop EXCEPT !.bullets = Flushed(loop),
                      !.multi_line_bullet = BulletText(line)]
    ELSE IF loop.multi_line_bullet = "" THEN loop
    ELSE IF ~IsUpper(Ch(line, 1)) \/ ~MatchesFrom(StartsEntry, line, 1)
         THEN [loop EXCEPT !.multi_line_bullet = @ \o " " \o line]
    ELSE [loop EXCEPT !.bullets = Flushed(loop), !.multi_line_bullet = ""]

\* a date line is looked for while the entry has no dates; such a line is
\* used up
TakenAsDates(loop, line) ==
    /\ loop.current # None
    /\ loop.current[1].dates = ""
    /\ date_match(line) # ""

\* one turn of "for line in section_lines"
ExperienceLine(loop, line) ==
    IF TitleFormat(line) # 0 THEN OnTitle(loop, line, TitleFormat(line))
    ELSE IF loop.current = None THEN loop
    ELSE IF TakenAsDates(loop, line)
         THEN [loop EXCEPT !.current = Some([@[1] EXCEPT !.dates = date_match(line)])]
    ELSE OnText(loop, line)

-----------------------------------------------------------------------------
(* ats_validator.py: validate_pdf_file                                      *)

\* str(e) of what extract_text_from_pdf raises
PdfErrorText(exception, file_path) ==
    IF exception = "FileNotFoundError" THEN "PDF not found: " \o file_path
    ELSE "All PDF extraction methods failed for: " \o file_path

\* "text, _ = extract_text_from_pdf(file_path)": the string returned is
\* unpacked character by character, which takes exactly two characters
Unpacked(extracted) ==
    IF Len(extracted) = 2 THEN Return(Ch(extracted, 1))
    ELSE IF Len(extracted) > 2
         THEN Raise("too many values to unpack (expected 2)")
    ELSE IF Len(extracted) = 1
         THEN Raise("not enough values to unpack (expected 2, got 1)")
    ELSE Raise("not enough values to unpack (expected 2, got 0)")

\* the result of the except branch
FileReadFailure(error) ==
    ATSValidationResult(FALSE, 0,
        <<ATSValidationIssue("critical", "file_read",
                             "Could not read PDF file: " \o error)>>,
        0, 0, << >>, << >>, << >>)

\* validate_pdf_file, given how extract_text_from_pdf ended
validate_pdf_file(extraction, file_path, resume_data, kws) ==
    IF extraction.kind = "raise"
    THEN FileReadFailure(PdfErrorText(extraction.exception, file_path))
    ELSE IF Unpacked(extraction.value).kind = "raise"
         THEN FileReadFailure(Unpacked(extraction.value).exception)
    ELSE validate_resume_output(Unpacked(extraction.value).value, resume_data, kws)

-----------------------------------------------------------------------------
(* Variable groups: a specification that does not use a group leaves it     *)
(* at its idle value.                                                       *)

bulletVars == <<bullet, bulletAnalysis>>
gradeVars == <<gradeScores, grades>>
scorerVars == <<resume, jd, keywords, analysis>>
validatorVars == <<vtext, vdata, vkeywords, validation>>
sanitizerVars == <<stext, sanitized>>
sectionsVars == <<rlines, rpass, rboundaries, rsections>>
parseVars == <<llmAvailable, parsePc, regex_result, llm_result, llmCalls, llmRaised, parsed>>
pdfVars == <<pdfExists, pdfPc, pdfTried, pdfResult>>
glyphVars == <<glyphLayout, glyphPages, glyphText>>
generateVars == <<OPTIMIZED_AVAILABLE, resume_data_cache, uploaded, generations>>
queueVars == <<_tasks, _semaphore, asyncio_task, funcEnded, time, deleted, cleanup_returned>>
cancelVars == <<cancel_returned, cancelled_ok>>
ratelimitVars == <<exclude_paths, _hits, _loaded_from_db, wall_time, forwarded, status_code>>
authVars == <<api_keys, _valid_keys, _loaded, revoked, auth_returned>>
storageVars == <<files, directories, storage_returned>>
sessionVars == <<resume_versions, analysis_cache, session_timestamps, epoch, in_flight, sessions_expired>>
experienceVars == <<section_lines, line_no, experience_loop, experience_returned>>
pdfvalidateVars == <<pdf_call, pdf_validation>>

BulletIdle == bullet = "" /\ bulletAnalysis = None
GradeIdle == gradeScores = <<0, 0>> /\ grades = None
ScorerIdle == resume = None /\ jd = "" /\ keywords = << >> /\ analysis = None
ValidatorIdle == vtext = "" /\ vdata = None /\ vkeywords = << >> /\ validation = None
SanitizerIdle == stext = "" /\ sanitized = << >>
SectionsIdle == rlines = << >> /\ rpass = 0 /\ rboundaries = << >> /\ rsections = << >>
ParseIdle == llmAvailable = FALSE /\ parsePc = "idle" /\ regex_result = None /\ llm_result = None /\ llmCalls = 0 /\ llmRaised = FALSE /\ parsed = None
PdfIdle == pdfExists = FALSE /\ pdfPc = "idle" /\ pdfTried = << >> /\ pdfResult = None
GlyphIdle == glyphLayout = None /\ glyphPages = << >> /\ glyphText = None
GenerateIdle == OPTIMIZED_AVAILABLE = FALSE /\ resume_data_cache = None /\ uploaded = None /\ generations = 0
QueueIdle == _tasks = << >> /\ _semaphore = None /\ asyncio_task = << >> /\ funcEnded = << >> /\ time = 1 /\ deleted = {} /\ cleanup_returned = None
CancelIdle == cancel_returned = None /\ cancelled_ok = {}
RatelimitIdle == exclude_paths = << >> /\ _hits = << >> /\ _loaded_from_db = {} /\ wall_time = 0 /\ forwarded = << >> /\ status_code = None
AuthIdle == api_keys = {} /\ _valid_keys = {} /\ _loaded = FALSE /\ revoked = {} /\ auth_returned = None
StorageIdle == files = << >> /\ directories = {} /\ storage_returned = None
SessionIdle == resume_versions = << >> /\ analysis_cache = << >> /\ session_timestamps = << >> /\ epoch = 0 /\ in_flight = {} /\ sessions_expired = None
ExperienceIdle == section_lines = << >> /\ line_no = 0 /\ experience_loop = None /\ experience_returned = None
PdfvalidateIdle == pdf_call = None /\ pdf_validation = None

\* the groups a specification leaves alone, and their idle values
bulletOthers == <<gradeVars, scorerVars, validatorVars, sanitizerVars,
    sectionsVars, parseVars, pdfVars, glyphVars, generateVars, queueVars,
    cancelVars, ratelimitVars, authVars, storageVars, sessionVars,
    experienceVars, pdfvalidateVars>>
gradeOthers == <<bulletVars, scorerVars, validatorVars, sanitizerVars,
    sectionsVars, parseVars, pdfVars, glyphVars, generateVars, queueVars,
    cancelVars, ratelimitVars, authVars, storageVars, sessionVars,
    experienceVars, pdfvalidateVars>>
scorerOthers == <<bulletVars, gradeVars, validatorVars, sanitizerVars,
    sectionsVars, parseVars, pdfVars, glyphVars, generateVars, queueVars,
    cancelVars, ratelimitVars, authVars, storageVars, sessionVars,
    experienceVars, pdfvalidateVars>>
validatorOthers == <<bulletVars, gradeVars, scorerVars, sanitizerVars,
    sectionsVars, parseVars, pdfVars, glyphVars, generateVars, queueVars,
    cancelVars, ratelimitVars, authVars, storageVars, sessionVars,
    experienceVars, pdfvalidateVars>>
sanitizerOthers == <<bulletVars, gradeVars, scorerVars, validatorVars,
    sectionsVars, parseVars, pdfVars, glyphVars, generateVars, queueVars,
    cancelVars, ratelimitVars, authVars, storageVars, sessionVars,
    experienceVars, pdfvalidateVars>>
sectionsOthers == <<bulletVars, gradeVars, scorerVars, validatorVars,
    sanitizerVars, parseVars, pdfVars, glyphVars, generateVars, queueVars,
    cancelVars, ratelimitVars, authVars, storageVars, sessionVars,
    experienceVars, pdfvalidateVars>>
parseOthers == <<bulletVars, gradeVars, scorerVars, validatorVars,
    sanitizerVars, sectionsVars, pdfVars, glyphVars, generateVars, queueVars,
    cancelVars, ratelimitVars, authVars, storageVars, sessionVars,
    experienceVars, pdfvalidateVars>>
pdfOthers == <<bulletVars, gradeVars, scorerVars, validatorVars,
    sanitizerVars, sectionsVars, parseVars, glyphVars, generateVars,
    queueVars, cancelVars, ratelimitVars, authVars, storageVars, sessionVars,
    experienceVars, pdfvalidateVars>>
glyphOthers == <<bulletVars, gradeVars, scorerVars, validatorVars,
    sanitizerVars, sectionsVars, parseVars, pdfVars, generateVars, queueVars,
    cancelVars, ratelimitVars, authVars, storageVars, sessionVars,
    experienceVars, pdfvalidateVars>>
generateOthers == <<bulletVars, gradeVars, scorerVars, validatorVars,
    sanitizerVars, sectionsVars, parseVars, pdfVars, glyphVars, queueVars,
    cancelVars, ratelimitVars, authVars, storageVars, sessionVars,
    experienceVars, pdfvalidateVars>>
queueOthers == <<bulletVars, gradeVars, scorerVars, validatorVars,
    sanitizerVars, sectionsVars, parseVars, pdfVars, glyphVars, generateVars,
    cancelVars, ratelimitVars, authVars, storageVars, sessionVars,
    experienceVars, pdfvalidateVars>>
cancelOthers == <<bulletVars, gradeVars, scorerVars, validatorVars,
    sanitizerVars, sectionsVars, parseVars, pdfVars, glyphVars, generateVars,
    queueVars, ratelimitVars, authVars, storageVars, sessionVars,
    experienceVars, pdfvalidateVars>>
ratelimitOthers == <<bulletVars, gradeVars, scorerVars, validatorVars,
    sanitizerVars, sectionsVars, parseVars, pdfVars, glyphVars, generateVars,
    queueVars, cancelVars, authVars, storageVars, sessionVars,
    experienceVars, pdfvalidateVars>>
authOthers == <<bulletVars, gradeVars, scorerVars, validatorVars,
    sanitizerVars, sectionsVars, parseVars, pdfVars, glyphVars, generateVars,
    queueVars, cancelVars, ratelimitVars, storageVars, sessionVars,
    experienceVars, pdfvalidateVars>>
storageOthers == <<bulletVars, gradeVars, scorerVars, validatorVars,
    sanitizerVars, sectionsVars, parseVars, pdfVars, glyphVars, generateVars,
    queueVars, cancelVars, ratelimitVars, authVars, sessionVars,
    experienceVars, pdfvalidateVars>>
sessionOthers == <<bulletVars, gradeVars, scorerVars, validatorVars,
    sanitizerVars, sectionsVars, parseVars, pdfVars, glyphVars, generateVars,
    queueVars, cancelVars, ratelimitVars, authVars, storageVars,
    experienceVars, pdfvalidateVars>>
experienceOthers == <<bulletVars, gradeVars, scorerVars, validatorVars,
    sanitizerVars, sectionsVars, parseVars, pdfVars, glyphVars, generateVars,
    queueVars, cancelVars, ratelimitVars, authVars, storageVars, sessionVars,
    pdfvalidateVars>>
pdfvalidateOthers == <<bulletVars, gradeVars, scorerVars, validatorVars,
    sanitizerVars, sectionsVars, parseVars, pdfVars, glyphVars, generateVars,
    queueVars, cancelVars, ratelimitVars, authVars, storageVars, sessionVars,
    experienceVars>>
cancelSharedOthers == <<bulletVars, gradeVars, scorerVars, validatorVars,
    sanitizerVars, sectionsVars, parseVars, pdfVars, glyphVars, generateVars,
    ratelimitVars, authVars, storageVars, sessionVars, experienceVars,
    pdfvalidateVars>>
sessionSharedOthers == <<bulletVars, gradeVars, scorerVars, validatorVars,
    sanitizerVars, sectionsVars, parseVars, pdfVars, glyphVars, queueVars,
    cancelVars, ratelimitVars, authVars, storageVars, experienceVars,
    pdfvalidateVars>>
pdfvalidateSharedOthers == <<bulletVars, gradeVars, scorerVars,
    validatorVars, sanitizerVars, sectionsVars, parseVars, glyphVars,
    generateVars, queueVars, cancelVars, ratelimitVars, authVars,
    storageVars, sessionVars, experienceVars>>
PdfvalidateSharedOthersIdle == BulletIdle /\ GradeIdle /\ ScorerIdle /\
    ValidatorIdle /\ SanitizerIdle /\ SectionsIdle /\ ParseIdle /\
    GlyphIdle /\ GenerateIdle /\ QueueIdle /\ CancelIdle /\ RatelimitIdle /\
    AuthIdle /\ StorageIdle /\ SessionIdle /\ ExperienceIdle
BulletOthersIdle == GradeIdle /\ ScorerIdle /\ ValidatorIdle /\
    SanitizerIdle /\ SectionsIdle /\ ParseIdle /\ PdfIdle /\ GlyphIdle /\
    GenerateIdle /\ QueueIdle /\ CancelIdle /\ RatelimitIdle /\ AuthIdle /\
    StorageIdle /\ SessionIdle /\ ExperienceIdle /\ PdfvalidateIdle
GradeOthersIdle == BulletIdle /\ ScorerIdle /\ ValidatorIdle /\
    SanitizerIdle /\ SectionsIdle /\ ParseIdle /\ PdfIdle /\ GlyphIdle /\
    GenerateIdle /\ QueueIdle /\ CancelIdle /\ RatelimitIdle /\ AuthIdle /\
    StorageIdle /\ SessionIdle /\ ExperienceIdle /\ PdfvalidateIdle
ScorerOthersIdle == BulletIdle /\ GradeIdle /\ ValidatorIdle /\
    SanitizerIdle /\ SectionsIdle /\ ParseIdle /\ PdfIdle /\ GlyphIdle /\
    GenerateIdle /\ QueueIdle /\ CancelIdle /\ RatelimitIdle /\ AuthIdle /\
    StorageIdle /\ SessionIdle /\ ExperienceIdle /\ PdfvalidateIdle
ValidatorOthersIdle == BulletIdle /\ GradeIdle /\ ScorerIdle /\
    SanitizerIdle /\ SectionsIdle /\ ParseIdle /\ PdfIdle /\ GlyphIdle /\
    GenerateIdle /\ QueueIdle /\ CancelIdle /\ RatelimitIdle /\ AuthIdle /\
    StorageIdle /\ SessionIdle /\ ExperienceIdle /\ PdfvalidateIdle
SanitizerOthersIdle == BulletIdle /\ GradeIdle /\ ScorerIdle /\
    ValidatorIdle /\ SectionsIdle /\ ParseIdle /\ PdfIdle /\ GlyphIdle /\
    GenerateIdle /\ QueueIdle /\ CancelIdle /\ RatelimitIdle /\ AuthIdle /\
    StorageIdle /\ SessionIdle /\ ExperienceIdle /\ PdfvalidateIdle
SectionsOthersIdle == BulletIdle /\ GradeIdle /\ ScorerIdle /\
    ValidatorIdle /\ SanitizerIdle /\ ParseIdle /\ PdfIdle /\ GlyphIdle /\
    GenerateIdle /\ QueueIdle /\ CancelIdle /\ RatelimitIdle /\ AuthIdle /\
    StorageIdle /\ SessionIdle /\ ExperienceIdle /\ PdfvalidateIdle
ParseOthersIdle == BulletIdle /\ GradeIdle /\ ScorerIdle /\ ValidatorIdle /\
    SanitizerIdle /\ SectionsIdle /\ PdfIdle /\ GlyphIdle /\ GenerateIdle /\
    QueueIdle /\ CancelIdle /\ RatelimitIdle /\ AuthIdle /\ StorageIdle /\
    SessionIdle /\ ExperienceIdle /\ PdfvalidateIdle
PdfOthersIdle == BulletIdle /\ GradeIdle /\ ScorerIdle /\ ValidatorIdle /\
    SanitizerIdle /\ SectionsIdle /\ ParseIdle /\ GlyphIdle /\
    GenerateIdle /\ QueueIdle /\ CancelIdle /\ RatelimitIdle /\ AuthIdle /\
    StorageIdle /\ SessionIdle /\ ExperienceIdle /\ PdfvalidateIdle
GlyphOthersIdle == BulletIdle /\ GradeIdle /\ ScorerIdle /\ ValidatorIdle /\
    SanitizerIdle /\ SectionsIdle /\ ParseIdle /\ PdfIdle /\ GenerateIdle /\
    QueueIdle /\ CancelIdle /\ RatelimitIdle /\ AuthIdle /\ StorageIdle /\
    SessionIdle /\ ExperienceIdle /\ PdfvalidateIdle
GenerateOthersIdle == BulletIdle /\ GradeIdle /\ ScorerIdle /\
    ValidatorIdle /\ SanitizerIdle /\ SectionsIdle /\ ParseIdle /\ PdfIdle /\
    GlyphIdle /\ QueueIdle /\ CancelIdle /\ RatelimitIdle /\ AuthIdle /\
    StorageIdle /\ SessionIdle /\ ExperienceIdle /\ PdfvalidateIdle
QueueOthersIdle == BulletIdle /\ GradeIdle /\ ScorerIdle /\ ValidatorIdle /\
    SanitizerIdle /\ SectionsIdle /\ ParseIdle /\ PdfIdle /\ GlyphIdle /\
    GenerateIdle /\ CancelIdle /\ RatelimitIdle /\ AuthIdle /\ StorageIdle /\
    SessionIdle /\ ExperienceIdle /\ PdfvalidateIdle
CancelOthersIdle == BulletIdle /\ GradeIdle /\ ScorerIdle /\ ValidatorIdle /\
    SanitizerIdle /\ SectionsIdle /\ ParseIdle /\ PdfIdle /\ GlyphIdle /\
    GenerateIdle /\ QueueIdle /\ RatelimitIdle /\ AuthIdle /\ StorageIdle /\
    SessionIdle /\ ExperienceIdle /\ PdfvalidateIdle
RatelimitOthersIdle == BulletIdle /\ GradeIdle /\ ScorerIdle /\
    ValidatorIdle /\ SanitizerIdle /\ SectionsIdle /\ ParseIdle /\ PdfIdle /\
    GlyphIdle /\ GenerateIdle /\ QueueIdle /\ CancelIdle /\ AuthIdle /\
    StorageIdle /\ SessionIdle /\ ExperienceIdle /\ PdfvalidateIdle
AuthOthersIdle == BulletIdle /\ GradeIdle /\ ScorerIdle /\ ValidatorIdle /\
    SanitizerIdle /\ SectionsIdle /\ ParseIdle /\ PdfIdle /\ GlyphIdle /\
    GenerateIdle /\ QueueIdle /\ CancelIdle /\ RatelimitIdle /\
    StorageIdle /\ SessionIdle /\ ExperienceIdle /\ PdfvalidateIdle
StorageOthersIdle == BulletIdle /\ GradeIdle /\ ScorerIdle /\
    ValidatorIdle /\ SanitizerIdle /\ SectionsIdle /\ ParseIdle /\ PdfIdle /\
    GlyphIdle /\ GenerateIdle /\ QueueIdle /\ CancelIdle /\ RatelimitIdle /\
    AuthIdle /\ SessionIdle /\ ExperienceIdle /\ PdfvalidateIdle
SessionOthersIdle == BulletIdle /\ GradeIdle /\ ScorerIdle /\
    ValidatorIdle /\ SanitizerIdle /\ SectionsIdle /\ ParseIdle /\ PdfIdle /\
    GlyphIdle /\ GenerateIdle /\ QueueIdle /\ CancelIdle /\ RatelimitIdle /\
    AuthIdle /\ StorageIdle /\ ExperienceIdle /\ PdfvalidateIdle
ExperienceOthersIdle == BulletIdle /\ GradeIdle /\ ScorerIdle /\
    ValidatorIdle /\ SanitizerIdle /\ SectionsIdle /\ ParseIdle /\ PdfIdle /\
    GlyphIdle /\ GenerateIdle /\ QueueIdle /\ CancelIdle /\ RatelimitIdle /\
    AuthIdle /\ StorageIdle /\ SessionIdle /\ PdfvalidateIdle
PdfvalidateOthersIdle == BulletIdle /\ GradeIdle /\ ScorerIdle /\
    ValidatorIdle /\ SanitizerIdle /\ SectionsIdle /\ ParseIdle /\ PdfIdle /\
    GlyphIdle /\ GenerateIdle /\ QueueIdle /\ CancelIdle /\ RatelimitIdle /\
    AuthIdle /\ StorageIdle /\ SessionIdle /\ ExperienceIdle

-----------------------------------------------------------------------------
(* SpecBullet: _analyze_single_bullet applied to a bounded set of bullets   *)

RECURSIVE Repeat(_, _)
Repeat(c, n) ==
    IF n <= 0 THEN ""
    ELSE IF n = 1 THEN c
    ELSE Repeat(c, n \div 2) \o Repeat(c, n - (n \div 2))

\* n characters of filler: a space and then letters that form no word the
\* scorer knows
Pad(n) == IF n <= 0 THEN "" ELSE " " \o Repeat("z", n - 1)

\* every verb of both vocabularies opens some bullet
BulletVerbs == ALL_ACTION_VERBS \cup WEAK_VERBS
BulletHeads ==
    {"", "led", "Led", "helped", "HELPED", "was responsible for", "ledger",
     "hadoop", "the", "we"}
BulletMids ==
    {"", " 10%", " my team", " a 3x gain for our 5 users", " $2,000 saved",
     " and helped our 12 users", " it from 5 to 9"}
\* total lengths aimed at (0: no padding): either side of 30, 50 and 150
BulletLengths == {0, 29, 30, 49, 50, 150, 151}
BulletMargins == {"", " \t"}

BulletInputs ==
    {h \o mid : h \in BulletVerbs, mid \in {"", " my 10%"}}
    \cup
    {m \o h \o mid \o Pad(n - Len(h) - Len(mid)) \o m :
        m \in BulletMargins, h \in BulletHeads, mid \in BulletMids,
        n \in BulletLengths}

InitBullet ==
    /\ bullet \in BulletInputs
    /\ bulletAnalysis = None
    /\ BulletOthersIdle

AnalyzeSingleBullet ==
    /\ bulletAnalysis = None
    /\ bulletAnalysis' = Some(_analyze_single_bullet(bullet))
    /\ UNCHANGED <<bullet, bulletOthers>>

NextBullet == AnalyzeSingleBullet

SpecBullet == InitBullet /\ [][NextBullet]_vars

-----------------------------------------------------------------------------
(* SpecGrade: _score_to_grade applied to two scores                         *)

Scores == 0..100

InitGrade ==
    /\ gradeScores \in Scores \X Scores
    /\ grades = None
    /\ GradeOthersIdle

ScoreToGrade ==
    /\ grades = None
    /\ grades' = Some(<<_score_to_grade(gradeScores[1]),
                        _score_to_grade(gradeScores[2])>>)
    /\ UNCHANGED <<gradeScores, gradeOthers>>

NextGrade == ScoreToGrade

SpecGrade == InitGrade /\ [][NextGrade]_vars

-----------------------------------------------------------------------------
(* SpecScore: analyze_resume_ats applied to bounded resumes and keywords    *)

MaxExperience == 2
MaxKeywords == 5

\* The resume's name is "Jane Doe": "jane" occurs in every resume text and
\* "cobol" in none.
FoundWord == "jane"
MissingWord == "cobol"

\* m found keywords followed by n - m missing ones, 0 <= m <= n <= MaxKeywords
ScoreKeywordLists ==
    {[i \in 1..n |-> IF i <= m THEN FoundWord ELSE MissingWord] :
        n \in 0..MaxKeywords, m \in 0..MaxKeywords}

ScoreJobDescription == "Must have COBOL"

\* experience entries: five short strong bullets with a pronoun, no dates and
\* four ATS-unfriendly characters in the company; six strong bullets, one of
\* ideal length, with dates
StrongShort == "Led my 5 teams"
StrongIdeal == "Built a data pipeline that cut our costs 40% in 2020"
ExperienceMenu ==
    {Experience("Engineer", "A" \o U2192 \o "B" \o U2014 \o "C" \o U2013 \o "D" \o U2022,
                "", [i \in 1..5 |-> StrongShort]),
     Experience("Lead", "Acme", "2021 - 2023",
                [i \in 1..6 |-> IF i = 1 THEN StrongIdeal ELSE "Built 3x"])}

ExperienceLists ==
    UNION {[1..n -> ExperienceMenu] : n \in 0..MaxExperience}

\* contact fields: none; a malformed email and a phone; all of them
ContactMenu ==
    {[email |-> "", phone |-> "", linkedin |-> "", github |-> "", location |-> ""],
     [email |-> "jane@doe", phone |-> "555-0100", linkedin |-> "", github |-> "",
      location |-> ""],
     [email |-> "j.doe@ab.io", phone |-> "555-0100",
      linkedin |-> "in/jane", github |-> "jane",
      location |-> "Austin, TX"]}

OneEducation == <<Education("BSc", "MIT", "Boston", "2019", "3.9",
                            <<"Logic">>)>>
OneCertification == <<Certification("CKA", "CNCF", "2022")>>

\* the other sections: none; the required ones; the required ones and two
\* projects whose descriptions are blank or weak; everything, with three
\* skill categories and a strong project
SectionMenu ==
    {[education |-> << >>, skills |-> << >>, projects |-> << >>,
      certifications |-> << >>],
     [education |-> OneEducation,
      skills |-> <<SkillCategory("Languages", <<"Python">>)>>,
      projects |-> << >>, certifications |-> OneCertification],
     [education |-> OneEducation,
      skills |-> <<SkillCategory("Languages", <<"Python">>)>>,
      projects |-> <<Project("Site", " ", << >>, ""),
                     Project("Tool", "helped my friend", <<"Go">>, "")>>,
      certifications |-> OneCertification],
     [education |-> OneEducation,
      skills |-> <<SkillCategory("Languages", <<"Python", "Go">>),
                   SkillCategory("Cloud", <<"AWS">>),
                   SkillCategory("Data", <<"Redis">>)>>,
      projects |-> <<Project("Cache", "Built a cache for 900 users",
                             <<"Redis">>, "backend"),
                     Project("Notes", "", << >>, "")>>,
      certifications |-> OneCertification]}

ScoreResumes ==
    {ResumeData("Jane Doe", c.email, c.phone, c.linkedin, c.github, c.location,
                sec.education, sec.skills, e, sec.projects, sec.certifications) :
        c \in ContactMenu, sec \in SectionMenu, e \in ExperienceLists}

InitScore ==
    /\ resume \in {Some(r) : r \in ScoreResumes}
    /\ jd = ScoreJobDescription
    /\ keywords = << >>
    /\ analysis = None
    /\ ScorerOthersIdle

\* one call analyze_resume_ats(resume, jd, kws)
AnalyzeResumeAts(lists) ==
    \E kws \in lists :
        /\ keywords' = kws
        /\ analysis' \in {Some(r) : r \in analyze_resume_ats(resume[1], jd, kws)}
        /\ UNCHANGED <<resume, jd, scorerOthers>>

AnalyzeScore == analysis = None /\ AnalyzeResumeAts(ScoreKeywordLists)

NextScore == AnalyzeScore

SpecScore == InitScore /\ [][NextScore]_vars

-----------------------------------------------------------------------------
(* SpecKeywords: analyze_resume_ats called again each time the caller       *)
(* appends one keyword to the list                                          *)

MaxKeywordList == 2

\* keywords: in the name; in the experience dates only; blank; a synonym
\* only SYNONYMS knows; a synonym only SKILL_SYNONYMS knows; in no resume
KeywordVocabulary == {"Jane", "2023", " ", "next.js", "cpython", "java"}

KeywordJobDescription == "Must have Java. Next.js or next.js, CPython"

KeywordSkills ==
    {<< >>,
     <<SkillCategory("Web", <<"nextjs">>)>>,
     <<SkillCategory("Languages", <<"Python">>)>>}

\* no experience; one role of two weak bullets; one role of nine bullets,
\* one of them over 200 characters
KeywordExperience ==
    {<< >>,
     <<Experience("Intern", "Acme", "2021 - 2023",
                  <<"helped me", "Did guru work">>)>>,
     <<Experience("Clerk", "Acme", "",
                  [i \in 1..9 |->
                      IF i = 1 THEN "Filed" \o Pad(196) ELSE "Filed 12"])>>}

KeywordResumes ==
    {ResumeData("Jane Doe", "", "", "", "", "", << >>, sk, e, << >>, << >>) :
        sk \in KeywordSkills, e \in KeywordExperience}

InitKeywords ==
    /\ resume \in {Some(r) : r \in KeywordResumes}
    /\ jd = KeywordJobDescription
    /\ keywords = << >>
    /\ analysis = None
    /\ ScorerOthersIdle

\* the first call, with no keywords yet
AnalyzeEmpty == analysis = None /\ AnalyzeResumeAts({<< >>})

\* a later call, with one more keyword at the end of the list
AnalyzeAppended ==
    /\ analysis # None
    /\ Len(keywords) < MaxKeywordList
    /\ AnalyzeResumeAts({Append(keywords, k) : k \in KeywordVocabulary})

NextKeywords == AnalyzeEmpty \/ AnalyzeAppended

SpecKeywords == InitKeywords /\ [][NextKeywords]_vars

-----------------------------------------------------------------------------
(* SpecValidate: validate_resume_output applied to resume texts put         *)
(* together line by line from small menus                                   *)

ValidatorEmail == "jane@doe.io"

HeaderMenu ==
    {<<"Jane Doe">>,
     <<"Jane Doe", "555.0100">>,
     <<"Jane Doe", ValidatorEmail \o " (555) 010-0199 Austin, TX linkedin.com/in/jane">>}

SectionLineMenu ==
    {<< >>,
     <<"Work Experience", "Education", "Technical Skills">>,
     <<"About Me", "My Journey", "Toolbox", "Education">>}

DateLineMenu ==
    {<< >>,
     <<"Jan 2021 - Present">>,
     <<"March 2020 to 03/2021">>}

BulletLineMenu ==
    {<< >>,
     <<"- Built tools", "* Led teams in Java Java Java Java Java Java">>,
     <<U2022 \o " Built tools", "  " \o U25BA \o " Led teams">>}

\* n lines of w filler words each
FillerLines(n, w) == [k \in 1..n |-> "x" \o Repeat(" x", w - 1)]

FillerMenu ==
    {<< >>,
     FillerLines(10, 15),
     FillerLines(81, 2) \o <<"Contact " \o ValidatorEmail>>,
     FillerLines(10, 15)
         \o [k \in 1..4 |-> Repeat("abc", 11)] \o <<Repeat("z", 11)>>,
     FillerLines(10, 15) \o <<Repeat(U2605 \o " ", 30), "page\f2">>}

ValidatorTexts ==
    {join("\n", h \o s \o d \o b \o f) :
        h \in HeaderMenu, s \in SectionLineMenu, d \in DateLineMenu,
        b \in BulletLineMenu, f \in FillerMenu}

\* the original data the caller may pass along: only email and phone are read
ValidatorData(email, phone) ==
    ResumeData("Jane Doe", email, phone, "", "", "", << >>, << >>, << >>, << >>, << >>)

\* resume_data and keywords as the callers pass them together
ValidatorCalls ==
    {<<None, << >>>>,
     <<Some(ValidatorData(ValidatorEmail, "555-010-0199")),
       <<"Built", "jane", "Education", "Java", "cobol">>>>,
     <<Some(ValidatorData("j@x.io", "")), <<"cobol", "">>>>}

InitValidate ==
    /\ vtext \in ValidatorTexts
    /\ \E call \in ValidatorCalls : vdata = call[1] /\ vkeywords = call[2]
    /\ validation = None
    /\ ValidatorOthersIdle

ValidateResumeOutput ==
    /\ validation = None
    /\ validation' = Some(validate_resume_output(vtext, vdata, vkeywords))
    /\ UNCHANGED <<vtext, vdata, vkeywords, validatorOthers>>

NextValidate == ValidateResumeOutput

SpecValidate == InitValidate /\ [][NextValidate]_vars

-----------------------------------------------------------------------------
(* SpecSanitize: sanitize_for_ats applied to a text, then to its own output *)

MaxTextLen == 4
MaxSanitizeCalls == 2

\* one character of each kind the sanitizer tells apart
SanitizerAlphabet ==
    {"a", " ", "\t", "\n", U200B, U200C, U2605, U2014, U201C}

RECURSIVE TextsOfLen(_)
TextsOfLen(n) ==
    IF n = 0 THEN {""}
    ELSE {t \o c : t \in TextsOfLen(n - 1), c \in SanitizerAlphabet}

SanitizerTexts == UNION {TextsOfLen(n) : n \in 0..MaxTextLen}

InitSanitize ==
    /\ stext \in SanitizerTexts
    /\ sanitized = << >>
    /\ SanitizerOthersIdle

\* the caller sanitizes the text, or sanitizes the previous output again
SanitizeForAts ==
    /\ Len(sanitized) < MaxSanitizeCalls
    /\ sanitized' =
           Append(sanitized,
                  sanitize_for_ats(IF sanitized = << >> THEN stext
                                   ELSE sanitized[Len(sanitized)]))
    /\ UNCHANGED <<stext, sanitizerOthers>>

NextSanitize == SanitizeForAts

SpecSanitize == InitSanitize /\ [][NextSanitize]_vars

-----------------------------------------------------------------------------
(* SpecSections: the two boundary passes of _parse_text_to_resume_data and  *)
(* the slices _get_section_lines then returns                               *)

MaxLines == 3

\* a line of every label the gap-fill pass tells apart, headers, and a line
\* without a label
SectionLineKinds ==
    {"Jane Doe", "Experience", "Skills", "Education", "Acme, Jan 2020",
     "BS, MIT", "Tools: git, vim", "Shop | React", "AWS Certified",
     "- Built it"}

RECURSIVE LinesOfLen(_)
LinesOfLen(n) ==
    IF n = 0 THEN {<< >>}
    ELSE {Append(ls, l) : ls \in LinesOfLen(n - 1), l \in SectionLineKinds}

SectionInputs == UNION {LinesOfLen(n) : n \in 0..MaxLines}

\* every line together with its index in the code's list
Indexed(lines) == [k \in 1..Len(lines) |-> <<k - 1, lines[k]>>]

InitSections ==
    /\ rlines \in SectionInputs
    /\ rpass = 0
    /\ rboundaries = << >>
    /\ rsections = << >>
    /\ SectionsOthersIdle

FindSectionBoundaries ==
    /\ rpass = 0
    /\ rpass' = 1
    /\ rboundaries' = _find_section_boundaries(rlines)
    /\ UNCHANGED <<rlines, rsections, sectionsOthers>>

SmartSectionBoundaries ==
    /\ rpass = 1
    /\ rpass' = 2
    /\ rboundaries' = _smart_section_boundaries(rlines, rboundaries)
    /\ UNCHANGED <<rlines, rsections, sectionsOthers>>

\* the extractors ask for the lines of every section
GetSectionLines ==
    /\ rpass = 2
    /\ rpass' = 3
    /\ rsections' =
           [section \in DOMAIN rboundaries |->
               _get_section_lines(Indexed(rlines), rboundaries, section)]
    /\ UNCHANGED <<rlines, rboundaries, sectionsOthers>>

NextSections ==
    \/ FindSectionBoundaries
    \/ SmartSectionBoundaries
    \/ GetSectionLines

SpecSections == InitSections /\ [][NextSections]_vars

-----------------------------------------------------------------------------
(* SpecParse: one call of _parse_text.  The regex parser and the LLM parser *)
(* are outside the model: what they return is chosen from bounded sets.     *)

ParseExperience ==
    {<< >>,
     <<Experience("Engineer", "Acme", "2020 - 2021", << >>)>>,
     <<Experience("Engineer", "Acme", "2020 - 2021", <<"Built it">>)>>,
     <<Experience("Intern", "Initech", "2019", << >>),
       Experience("Lead", "Acme", "2021 - 2023", <<"Led it", "Ran it">>)>>}

ParseSkills ==
    {<< >>,
     <<SkillCategory("Languages", << >>)>>,
     <<SkillCategory("Tools", << >>), SkillCategory("Languages", <<"Python">>)>>}

ParseEducation ==
    {<< >>, <<Education("BSc", "MIT", "", "2019", "", << >>)>>}

\* what _parse_text_to_resume_data may return, as far as _parse_text reads it
RegexResults ==
    {ResumeData(name, "", "", "", "", "", education, skills, experience,
                << >>, << >>) :
        name \in {"Your Name", "Jane Doe"}, education \in ParseEducation,
        skills \in ParseSkills, experience \in ParseExperience}

\* what parse_resume_with_llm may return: a full record, and a bare one
LlmResults ==
    {ResumeData("J. Q. Doe", "jq@doe.io", "", "", "", "",
                <<Education("MSc", "ETH", "", "2021", "", << >>)>>,
                <<SkillCategory("Cloud", <<"AWS">>)>>,
                <<Experience("Staff Engineer", "Globex", "2022",
                             <<"Shipped it">>)>>,
                << >>, << >>),
     ResumeData("Your Name", "", "", "", "", "", << >>, << >>, << >>, << >>,
                << >>)}

InitParse ==
    /\ llmAvailable \in BOOLEAN
    /\ parsePc = "start"
    /\ regex_result = None
    /\ llm_result = None
    /\ llmCalls = 0
    /\ llmRaised = FALSE
    /\ parsed = None
    /\ ParseOthersIdle

\* Step 1: the regex parser runs
ParseTextToResumeData ==
    /\ parsePc = "start"
    /\ \E r \in RegexResults : regex_result' = Some(r)
    /\ parsePc' = "gate"
    /\ UNCHANGED <<llmAvailable, llm_result, llmCalls, llmRaised, parsed,
                   parseOthers>>

\* Step 2: the regex result is good enough
ReturnRegexResult ==
    /\ parsePc = "gate"
    /\ RegexSufficient(regex_result[1])
    /\ parsed' = Some(Return(regex_result[1]))
    /\ parsePc' = "done"
    /\ UNCHANGED <<llmAvailable, regex_result, llm_result, llmCalls, llmRaised,
                   parseOthers>>

\* Step 3: the LLM parser is called
CallLlmParser ==
    /\ parsePc = "gate"
    /\ ~RegexSufficient(regex_result[1])
    /\ llmAvailable
    /\ llmCalls' = llmCalls + 1
    /\ parsePc' = "llm"
    /\ UNCHANGED <<llmAvailable, regex_result, llm_result, llmRaised, parsed,
                   parseOthers>>

LlmParserReturns ==
    /\ parsePc = "llm"
    /\ \E r \in LlmResults :
           /\ llm_result' = Some(r)
           /\ parsed' = Some(Return(r))
    /\ parsePc' = "done"
    /\ UNCHANGED <<llmAvailable, regex_result, llmCalls, llmRaised, parseOthers>>

LlmParserRaises ==
    /\ parsePc = "llm"
    /\ llmRaised' = TRUE
    /\ parsed' = Some(OnLlmException(regex_result[1]))
    /\ parsePc' = "done"
    /\ UNCHANGED <<llmAvailable, regex_result, llm_result, llmCalls,
                   parseOthers>>

LlmParserUnavailable ==
    /\ parsePc = "gate"
    /\ ~RegexSufficient(regex_result[1])
    /\ ~llmAvailable
    /\ parsed' = Some(Return(regex_result[1]))
    /\ parsePc' = "done"
    /\ UNCHANGED <<llmAvailable, regex_result, llm_result, llmCalls, llmRaised,
                   parseOthers>>

NextParse ==
    \/ ParseTextToResumeData
    \/ ReturnRegexResult
    \/ CallLlmParser
    \/ LlmParserReturns
    \/ LlmParserRaises
    \/ LlmParserUnavailable

SpecParse == InitParse /\ [][NextParse]_vars

-----------------------------------------------------------------------------
(* SpecPdf: one call of extract_text_from_pdf.  The three extractors read   *)
(* the file; what each gives is chosen from a bounded set.                  *)

MaxWordRepeats == 6

\* empty; blank; two characters; short; long and well spaced; long words;
\* one long token
PdfTexts ==
    {"", "  \n ", "JD", "Jane Doe",
     Repeat("Built a data pipeline. ", MaxWordRepeats),
     Repeat("SeniorEngineer ", MaxWordRepeats),
     Repeat("JaneDoe2020at3sOn.EC2", MaxWordRepeats)}

PdfOutcomes == {Raised} \cup {Text(t) : t \in PdfTexts}

Tried(strategy, out, accepted) ==
    [strategy |-> strategy, out |-> out, accepted |-> accepted]

InitPdf ==
    /\ pdfExists \in BOOLEAN
    /\ pdfPc = "start"
    /\ pdfTried = << >>
    /\ pdfResult = None
    /\ PdfOthersIdle

PathMissing ==
    /\ pdfPc = "start"
    /\ ~pdfExists
    /\ pdfResult' = Some(Raise("FileNotFoundError"))
    /\ pdfPc' = "done"
    /\ UNCHANGED <<pdfExists, pdfTried, pdfOthers>>

CharGapStrategy ==
    /\ pdfPc = "start"
    /\ pdfExists
    /\ \E out \in PdfOutcomes :
           /\ pdfTried' = Append(pdfTried, Tried("char_gap", out, AcceptCharGap(out)))
           /\ IF AcceptCharGap(out)
              THEN pdfResult' = Some(Return(out.text)) /\ pdfPc' = "done"
              ELSE pdfResult' = pdfResult /\ pdfPc' = "pdfplumber"
    /\ UNCHANGED <<pdfExists, pdfOthers>>

PdfplumberStrategy ==
    /\ pdfPc = "pdfplumber"
    /\ \E out \in PdfOutcomes :
           /\ pdfTried' =
                  Append(pdfTried, Tried("pdfplumber", out, AcceptPdfplumber(out)))
           /\ IF AcceptPdfplumber(out)
              THEN /\ pdfResult' = Some(Return(_recover_spaces_heuristic(out.text)))
                   /\ pdfPc' = "done"
              ELSE pdfResult' = pdfResult /\ pdfPc' = "pypdf"
    /\ UNCHANGED <<pdfExists, pdfOthers>>

PypdfStrategy ==
    /\ pdfPc = "pypdf"
    /\ \E out \in PdfOutcomes :
           /\ pdfTried' = Append(pdfTried, Tried("pypdf", out, AcceptPypdf(out)))
           /\ IF AcceptPypdf(out)
              THEN pdfResult' = Some(Return(_recover_spaces_heuristic(out.text)))
              ELSE pdfResult' = Some(Raise("RuntimeError"))
    /\ pdfPc' = "done"
    /\ UNCHANGED <<pdfExists, pdfOthers>>

NextPdf ==
    \/ PathMissing
    \/ CharGapStrategy
    \/ PdfplumberStrategy
    \/ PypdfStrategy

SpecPdf == InitPdf /\ [][NextPdf]_vars

-----------------------------------------------------------------------------
(* SpecGlyphs: _extract_with_char_gaps on pages that hold two words, set    *)
(* without a space glyph                                                    *)

FontSize == 10
LineHeight == 120

WordPairs == {<<"from", "MySQL">>, <<"il", "li">>}
\* glyph widths, in hundredths of a point: narrow ones, and wide ones
GlyphWidths == {200, 300, 500, 600}
\* the gap between the two words: none, below, at and above 0.35 of a width
WordGaps == {0, 70, 90, 105, 106, 175, 176, 210, 250}
Placements == {"one line", "two lines", "two pages"}

\* the glyphs of word, set from x on at the given top, one after the other
SetWord(word, x, top, width) ==
    [k \in 1..Len(word) |->
        PdfChar(Ch(word, k), top, x + (k - 1) * width, x + k * width, FontSize)]

\* page.chars lists the glyphs in the order they were drawn: here the second
\* word first
SetPages(words, width, gap, placement) ==
    CASE placement = "one line" ->
             <<SetWord(words[2], 1000 + Len(words[1]) * width + gap, 500, width)
                   \o SetWord(words[1], 1000, 500, width)>>
      [] placement = "two lines" ->
             <<SetWord(words[2], 1000 + gap, 500 + LineHeight, width)
                   \o SetWord(words[1], 1000, 500, width)>>
      [] placement = "two pages" ->
             <<SetWord(words[1], 1000, 500, width), << >>,
               SetWord(words[2], 1000 + gap, 500, width)>>

InitGlyphs ==
    /\ \E words \in WordPairs, width \in GlyphWidths, gap \in WordGaps,
          placement \in Placements :
           /\ glyphLayout = Some([words |-> words, width |-> width, gap |-> gap,
                                  placement |-> placement])
           /\ glyphPages = SetPages(words, width, gap, placement)
    /\ glyphText = None
    /\ GlyphOthersIdle

ExtractWithCharGaps ==
    /\ glyphText = None
    /\ \E t \in _extract_with_char_gaps(glyphPages) : glyphText' = Some(t)
    /\ UNCHANGED <<glyphLayout, glyphPages, glyphOthers>>

NextGlyphs == ExtractWithCharGaps

SpecGlyphs == InitGlyphs /\ [][NextGlyphs]_vars

-----------------------------------------------------------------------------
(* SpecGenerate: create_resume requests (DOCX) on one session               *)

MaxEntries == 5
MaxGenerations == 2

\* bullets of every experience at upload: three entries of seven exceed the
\* twenty bullets of should_condense
BulletCounts == {1, 7}

ExperienceEntry(k, n) ==
    [title |-> "Engineer " \o ToString(k), company |-> "Acme",
     dates |-> "2020 - 2021", bullets |-> [j \in 1..n |-> "Built it"]]

ProjectEntry(k) ==
    [name |-> "Project " \o ToString(k), description |-> "A tool",
     technologies |-> <<"Python">>, category |-> ""]

Upload(n_experience, n_projects, n_bullets) ==
    [name |-> "Jane Doe", email |-> "jane@x.io", phone |-> "", linkedin |-> "",
     github |-> "", location |-> "", education |-> << >>,
     skills |-> <<"Python">>,
     experience |-> [k \in 1..n_experience |-> ExperienceEntry(k, n_bullets)],
     projects |-> [k \in 1..n_projects |-> ProjectEntry(k)],
     certifications |-> << >>]

\* an answer with a list of bullets
Rewritten ==
    [contains |-> FALSE, cached |-> None,
     response |-> Return(List(<<"Rewrote it", "Led it">>))]

\* what a rewrite meets: keywords already there, a cached rewrite, an answer
\* with a list, a failed request, an answer without a list
RewriteEnvs ==
    {[contains |-> TRUE, cached |-> None, response |-> Raise("APIError")],
     [contains |-> FALSE, cached |-> Some(<<"Cached">>), response |-> Raise("APIError")],
     Rewritten,
     [contains |-> FALSE, cached |-> None, response |-> Raise("APIError")],
     [contains |-> FALSE, cached |-> None, response |-> Return(NotAList)]}

ProjectEnvs ==
    {[contains |-> TRUE, cached |-> None, response |-> Raise("APIError")],
     [contains |-> FALSE, cached |-> None, response |-> Return("A Python tool")],
     [contains |-> FALSE, cached |-> None, response |-> Raise("APIError")]}

\* the ranking answered: none, a reordering, one with a repeated and an
\* out-of-range index, no list
RankingAnswers ==
    {Raise("APIError"), Return(List(<<3, 0>>)), Return(List(<<1, 1, 7>>)),
     Return(NotAList)}

\* odd rewrites meet a, even ones b; every project rewrite meets p
Env(ranking, a, b, p) ==
    [ranking |-> ranking,
     bullets |-> [i \in 1..4 |-> IF i % 2 = 1 THEN a ELSE b],
     projects |-> [i \in 1..4 |-> p]]

InitGenerate ==
    /\ OPTIMIZED_AVAILABLE \in BOOLEAN
    /\ \E n_experience \in 0..MaxEntries, n_projects \in 0..MaxEntries,
          n_bullets \in BulletCounts :
           /\ resume_data_cache = Some(Upload(n_experience, n_projects, n_bullets))
           /\ uploaded = resume_data_cache
    /\ generations = 0
    /\ GenerateOthersIdle

\* POST /generate_resume/ with output_format docx: use_parallel is True
CreateResume ==
    /\ generations < MaxGenerations
    /\ \E job_description \in {"", "Python engineer"}, fast_mode \in BOOLEAN,
          client \in BOOLEAN, ranking \in RankingAnswers,
          a \in RewriteEnvs, p \in ProjectEnvs :
         \E b \in {a, Rewritten} :
           resume_data_cache' =
               Some(generate_resume(resume_data_cache[1], job_description, TRUE,
                                    fast_mode, OPTIMIZED_AVAILABLE, client,
                                    Env(ranking, a, b, p)))
    /\ generations' = generations + 1
    /\ UNCHANGED <<OPTIMIZED_AVAILABLE, uploaded, generateOthers>>

NextGenerate == CreateResume

SpecGenerate == InitGenerate /\ [][NextGenerate]_vars

-----------------------------------------------------------------------------
(* SpecQueue: submit, the steps of the tasks, cancel                        *)

MaxTasks == 3
max_concurrency == 1

TaskIds == 1..MaxTasks

\* the function suspends at an await of its own
Suspend == [kind |-> "suspend"]

\* how a function ends: test_submit_and_complete, test_failed_task, and a
\* function that awaited something cancelled
Outcomes ==
    {Return(7), Raise(Exception("ValueError", "Something went wrong")),
     Raise(CancelledError)}

\* what only cleanup_old_tasks and the clock change
cleanupVars == <<time, deleted, cleanup_returned>>

InitQueue ==
    /\ _tasks = << >>
    /\ _semaphore = None
    /\ asyncio_task = << >>
    /\ funcEnded = << >>
    /\ time = 1
    /\ deleted = {}
    /\ cleanup_returned = None
    /\ QueueOthersIdle

\* submit: the ids are those of uuid4, one per call
Submit ==
    /\ Cardinality(DOMAIN _tasks) < MaxTasks
    /\ LET task_id == Cardinality(DOMAIN _tasks) + 1
       IN  /\ _tasks' = _tasks @@ (task_id :> _TaskEntry)
           /\ asyncio_task' =
                  asyncio_task @@ (task_id :> [pc |-> "created", must_cancel |-> FALSE])
           /\ funcEnded' = funcEnded @@ (task_id :> None)
    /\ UNCHANGED <<_semaphore, cleanupVars, queueOthers>>

\* the body of async with: RUNNING, then entry.func runs until it suspends
\* or ends; when it ends the except/finally clauses and the release follow
\* in the same step
Body(t, sem, how) ==
    IF how = Suspend
    THEN /\ _tasks' = [_tasks EXCEPT ![t].status = RUNNING]
         /\ asyncio_task' = [asyncio_task EXCEPT ![t] = [pc |-> "func", must_cancel |-> FALSE]]
         /\ _semaphore' = Some(sem)
         /\ UNCHANGED funcEnded
    ELSE /\ _tasks' = [_tasks EXCEPT ![t] = Finished(@, how)]
         /\ asyncio_task' = [asyncio_task EXCEPT ![t] = [pc |-> "done", must_cancel |-> FALSE]]
         /\ _semaphore' = Some(release(sem))
         /\ funcEnded' = [funcEnded EXCEPT ![t] = Some(how)]

\* the task ends with CancelledError outside the try statement
EndCancelled(t) ==
    asyncio_task' = [asyncio_task EXCEPT ![t] = [pc |-> "done", must_cancel |-> FALSE]]

\* first step of _execute
StartExecute(t) ==
    /\ t \in DOMAIN _tasks
    /\ asyncio_task[t].pc = "created"
    /\ IF asyncio_task[t].must_cancel
       THEN EndCancelled(t) /\ UNCHANGED <<_tasks, _semaphore, funcEnded>>
       ELSE IF ~locked(_get_semaphore(_semaphore, max_concurrency))
       THEN \E how \in {Suspend} \cup Outcomes :
                Body(t, [_get_semaphore(_semaphore, max_concurrency)
                           EXCEPT !._value = @ - 1], how)
       ELSE /\ _semaphore' =
                  Some([_get_semaphore(_semaphore, max_concurrency) EXCEPT
                          !._waiters = Append(@, [task |-> t, fut |-> "pending"])])
            /\ asyncio_task' = [asyncio_task EXCEPT ![t].pc = "acquire"]
            /\ UNCHANGED <<_tasks, funcEnded>>
    /\ UNCHANGED <<cleanupVars, queueOthers>>

\* the task resumes in Semaphore.acquire: its future is done
ResumeAcquire(t) ==
    /\ t \in DOMAIN _tasks
    /\ asyncio_task[t].pc = "acquire"
    /\ Waiter(_semaphore[1], t).fut # "pending"
    /\ IF asyncio_task[t].must_cancel
       THEN /\ EndCancelled(t)
            /\ _semaphore' = Some(AcquireCancelled(_semaphore[1], t))
            /\ UNCHANGED <<_tasks, funcEnded>>
       ELSE \E how \in {Suspend} \cup Outcomes :
                Body(t, Acquired(_semaphore[1], t), how)
    /\ UNCHANGED <<cleanupVars, queueOthers>>

\* the task resumes inside entry.func, which ends; on CancelledError the
\* function may also carry on and end at its next step
ResumeFunc(t) ==
    /\ t \in DOMAIN _tasks
    /\ asyncio_task[t].pc = "func"
    /\ IF asyncio_task[t].must_cancel
       THEN \E how \in {Suspend} \cup Outcomes :
                IF how = Suspend
                THEN /\ asyncio_task' = [asyncio_task EXCEPT ![t].must_cancel = FALSE]
                     /\ UNCHANGED <<_tasks, _semaphore, funcEnded>>
                ELSE Body(t, _semaphore[1], how)
       ELSE \E how \in Outcomes : Body(t, _semaphore[1], how)
    /\ UNCHANGED <<cleanupVars, queueOthers>>

\* what cancel(task_id) returns
cancel_returns(task_id) ==
    /\ task_id \in DOMAIN _tasks \ deleted
    /\ _tasks[task_id].status \in {PENDING, RUNNING}

\* cancel(task_id): what it does to the queue
cancel(task_id) ==
    /\ IF cancel_returns(task_id)
       THEN /\ asyncio_task' = [asyncio_task EXCEPT ![task_id].must_cancel = TRUE]
            /\ _semaphore' = TaskCancel(_semaphore, task_id)
            /\ _tasks' = [_tasks EXCEPT ![task_id].status = CANCELLED,
                                        ![task_id].completed_at = time]
       ELSE UNCHANGED <<_tasks, _semaphore, asyncio_task>>
    /\ UNCHANGED funcEnded

\* cancel(task_id) of a submitted task
Cancel(t) ==
    /\ t \in DOMAIN _tasks
    /\ cancel(t)
    /\ UNCHANGED <<cleanupVars, queueOthers>>

Step(t) == StartExecute(t) \/ ResumeAcquire(t) \/ ResumeFunc(t)

NextQueue ==
    \/ Submit
    \/ \E t \in TaskIds : StartExecute(t)
    \/ \E t \in TaskIds : ResumeAcquire(t)
    \/ \E t \in TaskIds : ResumeFunc(t)
    \/ \E t \in TaskIds : Cancel(t)

SpecQueue == InitQueue /\ [][NextQueue]_vars

\* The event loop runs every task that is ready, in turn, and the function
\* of a task is one that ends: no task stays ready forever.
QueueFairness == \A t \in TaskIds : WF_vars(Step(t))

SpecQueueFair == SpecQueue /\ QueueFairness

-----------------------------------------------------------------------------
(* SpecCancel: the queue with every cancel call and its return value kept   *)

\* cancel(task_id) of any id, submitted or not, and what the caller gets
CancelCall(task_id) ==
    /\ cancel(task_id)
    /\ cancel_returned' =
           Some([task_id |-> task_id, returned |-> cancel_returns(task_id)])
    /\ cancelled_ok' =
           IF cancel_returns(task_id)
           THEN cancelled_ok \cup {task_id} ELSE cancelled_ok
    /\ UNCHANGED <<cleanupVars, cancelSharedOthers>>

NextCancel ==
    \/ Submit
    \/ \E t \in TaskIds : StartExecute(t)
    \/ \E t \in TaskIds : ResumeAcquire(t)
    \/ \E t \in TaskIds : ResumeFunc(t)
    \/ \E task_id \in TaskIds : CancelCall(task_id)

SpecCancel == InitQueue /\ [][NextCancel]_vars

-----------------------------------------------------------------------------
(* SpecCleanup: the queue, the clock and cleanup_old_tasks                  *)

MaxTime == 3
_result_ttl == 1

\* time.time() moves on
Tick ==
    /\ time < MaxTime
    /\ time' = time + 1
    /\ UNCHANGED <<_tasks, _semaphore, asyncio_task, funcEnded, deleted,
                   cleanup_returned, queueOthers>>

\* cleanup_old_tasks: the ids it collects
to_remove ==
    {task_id \in DOMAIN _tasks \ deleted :
        /\ _tasks[task_id].status \in {COMPLETED, FAILED, CANCELLED}
        /\ _tasks[task_id].completed_at # 0
        /\ (time - _tasks[task_id].completed_at) > _result_ttl}

cleanup_old_tasks ==
    /\ deleted' = deleted \cup to_remove
    /\ cleanup_returned' = Some(Cardinality(to_remove))
    /\ UNCHANGED <<_tasks, _semaphore, asyncio_task, funcEnded, time, queueOthers>>

NextCleanup ==
    \/ Submit
    \/ \E t \in TaskIds : StartExecute(t)
    \/ \E t \in TaskIds : ResumeAcquire(t)
    \/ \E t \in TaskIds : ResumeFunc(t)
    \/ \E t \in TaskIds : Cancel(t)
    \/ Tick
    \/ cleanup_old_tasks

SpecCleanup == InitQueue /\ [][NextCleanup]_vars

-----------------------------------------------------------------------------
(* SpecRateLimit: requests of two clients over time                         *)

max_requests == 2
window_seconds == 2
MaxWallTime == 4
MaxForwarded == 4

ClientIps == {"1.2.3.4", "5.6.7.8"}
Paths == {"/api/analyze", "/health"}

\* a deployment either keeps the default exclude_paths or passes its own
InitRateLimit ==
    /\ exclude_paths \in {DefaultExcludePaths, <<"/health", "/static">>}
    /\ _hits = << >>
    /\ _loaded_from_db = {}
    /\ wall_time = 0
    /\ forwarded = << >>
    /\ status_code = None
    /\ RatelimitOthersIdle

\* return await call_next(request)
CallNext(ip, path) ==
    /\ forwarded' = Append(forwarded, [client_ip |-> ip, path |-> path, at |-> wall_time])
    /\ status_code' = Some(200)

\* dispatch
Dispatch(ip, path) ==
    /\ Len(forwarded) < MaxForwarded
    /\ IF Excluded(path, exclude_paths)
       THEN CallNext(ip, path) /\ UNCHANGED <<_hits, _loaded_from_db>>
       ELSE /\ _loaded_from_db' =
                   LoadedAfterPrune(_hits, _loaded_from_db, ip, wall_time, window_seconds)
            /\ IF LimitReached(_prune(_hits, ip, wall_time, window_seconds), ip, max_requests)
               THEN /\ _hits' = _prune(_hits, ip, wall_time, window_seconds)
                    /\ status_code' = Some(429)
                    /\ UNCHANGED forwarded
               ELSE /\ _hits' =
                          WithIp(_prune(_hits, ip, wall_time, window_seconds), ip,
                                 Append(HitsOf(_prune(_hits, ip, wall_time, window_seconds), ip),
                                        wall_time))
                    /\ CallNext(ip, path)
    /\ UNCHANGED <<exclude_paths, wall_time, ratelimitOthers>>

\* time.time() moves on
WallTick ==
    /\ wall_time < MaxWallTime
    /\ wall_time' = wall_time + 1
    /\ UNCHANGED <<exclude_paths, _hits, _loaded_from_db, forwarded, status_code,
                   ratelimitOthers>>

NextRateLimit ==
    \/ \E ip \in ClientIps, path \in Paths : Dispatch(ip, path)
    \/ WallTick

SpecRateLimit == InitRateLimit /\ [][NextRateLimit]_vars

-----------------------------------------------------------------------------
(* SpecAuth: keys added, revoked and checked                                *)

ApiKeys == {"test_key_456", "test_key_789"}

Called(name, key, value) == Some([call |-> name, key |-> key, returned |-> value])

InitAuth ==
    /\ api_keys \in SUBSET ApiKeys
    /\ _valid_keys = {}
    /\ _loaded = FALSE
    /\ revoked = {}
    /\ auth_returned = None
    /\ AuthOthersIdle

add_api_key(key) ==
    /\ _valid_keys' = _valid_keys \cup {key}
    /\ revoked' = revoked \ {key}
    /\ auth_returned' = Called("add_api_key", Some(key), None)
    /\ UNCHANGED <<api_keys, _loaded, authOthers>>

revoke_api_key(key) ==
    /\ _valid_keys' = _valid_keys \ {key}
    /\ revoked' = IF key \in _valid_keys THEN revoked \cup {key} ELSE revoked
    /\ auth_returned' = Called("revoke_api_key", Some(key), key \in _valid_keys)
    /\ UNCHANGED <<api_keys, _loaded, authOthers>>

ValidateKey(key) ==
    /\ _valid_keys' = _init_auth(_valid_keys, _loaded, api_keys)
    /\ _loaded' = (_loaded \/ NeedsLoad(_valid_keys, _loaded))
    /\ auth_returned' =
           Called("validate_key", Some(key),
                  validate_key(_init_auth(_valid_keys, _loaded, api_keys), key))
    /\ UNCHANGED <<api_keys, revoked, authOthers>>

RequireApiKey(key) ==
    /\ _valid_keys' = _init_auth(_valid_keys, _loaded, api_keys)
    /\ _loaded' = (_loaded \/ NeedsLoad(_valid_keys, _loaded))
    /\ auth_returned' =
           Called("require_api_key", key,
                  require_api_key(_init_auth(_valid_keys, _loaded, api_keys), key))
    /\ UNCHANGED <<api_keys, revoked, authOthers>>

NextAuth ==
    \/ \E key \in ApiKeys : add_api_key(key)
    \/ \E key \in ApiKeys : revoke_api_key(key)
    \/ \E key \in ApiKeys : ValidateKey(key)
    \/ \E key \in {None} \cup {Some(k) : k \in ApiKeys} : RequireApiKey(key)

SpecAuth == InitAuth /\ [][NextAuth]_vars

-----------------------------------------------------------------------------
(* SpecStorage: save, read, delete and exists on keys inside and outside    *)

base_dir == <<"srv", "outputs">>

\* what is on disk when the storage is created
InitialFiles ==
    (<<"etc", "passwd">> :> "root") @@ (<<"srv", "outputs_evil", "x.txt">> :> "secret")

InitialDirectories ==
    {<< >>, <<"etc">>, <<"srv">>, <<"srv", "outputs">>, <<"srv", "outputs_evil">>}

StorageKeys ==
    {Key(<<"a.txt">>), Key(<<"a.txt", "b.txt">>), Key(<< >>),
     Key(<<"..", "outputs", "a.txt">>),
     Key(<<"..", "..", "etc", "passwd">>),
     Key(<<"..", "outputs_evil", "x.txt">>),
     Key(<<"..", "outputs_evil", "new.txt">>),
     AbsoluteKey(<<"etc", "passwd">>)}

StorageData == {"data", "hack"}

StorageCalled(name, key, outcome) ==
    Some([call |-> name, key |-> key, outcome |-> outcome])

InitStorage ==
    /\ files = InitialFiles
    /\ directories = InitialDirectories
    /\ storage_returned = None
    /\ StorageOthersIdle

\* save, from path.parent.mkdir on
SaveAt(key, path, data) ==
    IF IsFile(files, Parent(path))
    THEN /\ storage_returned' = StorageCalled("save", key, Raise("FileExistsError"))
         /\ UNCHANGED <<files, directories>>
    ELSE /\ directories' = directories \cup Ancestors(Parent(path))
         /\ IF path \in directories \cup Ancestors(Parent(path))
            THEN /\ storage_returned' = StorageCalled("save", key, Raise("IsADirectoryError"))
                 /\ UNCHANGED files
            ELSE /\ files' = Written(files, path, data)
                 /\ storage_returned' = StorageCalled("save", key, Return(PathText(path)))

save(key, data) ==
    /\ IF _resolve(base_dir, key).kind = "raise"
       THEN /\ storage_returned' = StorageCalled("save", key, _resolve(base_dir, key))
            /\ UNCHANGED <<files, directories>>
       ELSE SaveAt(key, _resolve(base_dir, key).value, data)
    /\ UNCHANGED storageOthers

read(key) ==
    /\ storage_returned' =
           StorageCalled("read", key,
               IF _resolve(base_dir, key).kind = "raise" THEN _resolve(base_dir, key)
               ELSE IF IsFile(files, _resolve(base_dir, key).value)
               THEN Return(Some(files[_resolve(base_dir, key).value]))
               ELSE Return(None))
    /\ UNCHANGED <<files, directories, storageOthers>>

delete(key) ==
    /\ IF _resolve(base_dir, key).kind = "raise"
       THEN /\ storage_returned' = StorageCalled("delete", key, _resolve(base_dir, key))
            /\ UNCHANGED files
       ELSE /\ storage_returned' =
                   StorageCalled("delete", key,
                                 Return(IsFile(files, _resolve(base_dir, key).value)))
            /\ files' = Unlinked(files, _resolve(base_dir, key).value)
    /\ UNCHANGED <<directories, storageOthers>>

exists(key) ==
    /\ storage_returned' =
           StorageCalled("exists", key,
               IF _resolve(base_dir, key).kind = "raise" THEN _resolve(base_dir, key)
               ELSE Return(IsFile(files, _resolve(base_dir, key).value)))
    /\ UNCHANGED <<files, directories, storageOthers>>

NextStorage ==
    \/ \E key \in StorageKeys, data \in StorageData : save(key, data)
    \/ \E key \in StorageKeys : read(key)
    \/ \E key \in StorageKeys : delete(key)
    \/ \E key \in StorageKeys : exists(key)

SpecStorage == InitStorage /\ [][NextStorage]_vars

-----------------------------------------------------------------------------
(* The session stores under upload, analyze, generate and cleanup           *)
(* (SpecSession). The database is disabled, as it is without a Supabase     *)
(* URL, so has_session and get_resume_data read resume_data_cache only.     *)

MaxEpoch == 2
MaxInFlight == 1
MaxVersions == 2
SESSION_MAX_AGE_SECONDS == 1

\* uuid4().hex[:16] of upload.py, and what a client may send as session_id
SessionIds == {"3f9a41c2d07be615", "3f9a41c2d07be61a"}
ResumeDatas == {[name |-> "Test"]}
Analyses == {[overall_score |-> 85]}
MaxAges == {0, SESSION_MAX_AGE_SECONDS}

generateRest == <<OPTIMIZED_AVAILABLE, uploaded, generations>>

InitSession ==
    /\ resume_versions = << >>
    /\ analysis_cache = << >>
    /\ session_timestamps = << >>
    /\ epoch = 0
    /\ in_flight = {}
    /\ sessions_expired = None
    /\ SessionOthersIdle

\* upload_resume and upload_resume_text, from the fresh session id on
save_resume_data(session_id, data) ==
    /\ session_id \notin DOMAIN resume_data_cache \cup DOMAIN session_timestamps
                         \cup DOMAIN resume_versions
    /\ resume_data_cache' = Stored(resume_data_cache, session_id, data)
    /\ session_timestamps' = Stored(session_timestamps, session_id, epoch)
    /\ UNCHANGED <<resume_versions, analysis_cache, epoch, in_flight, sessions_expired>>
    /\ UNCHANGED <<generateRest, sessionSharedOthers>>

\* analyze_resume up to the await of the keyword extraction; a request for
\* an unknown session ends with SessionNotFoundError and changes nothing
analyze_resume(session_id) ==
    /\ Cardinality(in_flight) < MaxInFlight
    /\ session_id \in DOMAIN resume_data_cache
    /\ in_flight' = in_flight \cup {[handler |-> "analyze_resume", session_id |-> session_id]}
    /\ UNCHANGED <<resume_data_cache, resume_versions, analysis_cache, session_timestamps,
                   epoch, sessions_expired>>
    /\ UNCHANGED <<generateRest, sessionSharedOthers>>

\* analyze_resume from analyze_resume_ats on
save_analysis_data(session_id, result) ==
    /\ [handler |-> "analyze_resume", session_id |-> session_id] \in in_flight
    /\ in_flight' = in_flight \ {[handler |-> "analyze_resume", session_id |-> session_id]}
    /\ analysis_cache' = Stored(analysis_cache, LatestKey(session_id), result)
    /\ UNCHANGED <<resume_data_cache, resume_versions, session_timestamps, epoch,
                   sessions_expired>>
    /\ UNCHANGED <<generateRest, sessionSharedOthers>>

\* create_resume up to the await of the keyword extraction
create_resume(session_id) ==
    /\ Cardinality(in_flight) < MaxInFlight
    /\ in_flight' = in_flight \cup {[handler |-> "create_resume", session_id |-> session_id]}
    /\ UNCHANGED <<resume_data_cache, resume_versions, analysis_cache, session_timestamps,
                   epoch, sessions_expired>>
    /\ UNCHANGED <<generateRest, sessionSharedOthers>>

\* create_resume once generate_resume wrote the document
SaveVersion(session_id) ==
    /\ [handler |-> "create_resume", session_id |-> session_id] \in in_flight
    /\ in_flight' = in_flight \ {[handler |-> "create_resume", session_id |-> session_id]}
    /\ resume_versions' =
           _save_version(resume_versions, analysis_cache, session_id, MaxVersions)
    /\ UNCHANGED <<resume_data_cache, analysis_cache, session_timestamps, epoch,
                   sessions_expired>>
    /\ UNCHANGED <<generateRest, sessionSharedOthers>>

\* analyze_resume_ats or generate_resume raised: the request ends in an error
RequestFailed(request) ==
    /\ request \in in_flight
    /\ in_flight' = in_flight \ {request}
    /\ UNCHANGED <<resume_data_cache, resume_versions, analysis_cache, session_timestamps,
                   epoch, sessions_expired>>
    /\ UNCHANGED <<generateRest, sessionSharedOthers>>

_cleanup_expired_sessions(max_age_seconds) ==
    /\ resume_data_cache' =
           Popped(resume_data_cache, expired(session_timestamps, epoch, max_age_seconds))
    /\ resume_versions' =
           Popped(resume_versions, expired(session_timestamps, epoch, max_age_seconds))
    /\ session_timestamps' =
           Popped(session_timestamps, expired(session_timestamps, epoch, max_age_seconds))
    /\ analysis_cache' =
           Popped(analysis_cache,
                  keys_to_remove(analysis_cache,
                                 expired(session_timestamps, epoch, max_age_seconds)))
    /\ sessions_expired' =
           Some([max_age_seconds |-> max_age_seconds,
                 returned |-> Cardinality(expired(session_timestamps, epoch,
                                                  max_age_seconds))])
    /\ UNCHANGED <<epoch, in_flight>>
    /\ UNCHANGED <<generateRest, sessionSharedOthers>>

EpochTick ==
    /\ epoch < MaxEpoch
    /\ epoch' = epoch + 1
    /\ UNCHANGED <<resume_data_cache, resume_versions, analysis_cache, session_timestamps,
                   in_flight, sessions_expired>>
    /\ UNCHANGED <<generateRest, sessionSharedOthers>>

NextSession ==
    \/ \E session_id \in SessionIds, data \in ResumeDatas :
           save_resume_data(session_id, data)
    \/ \E session_id \in SessionIds : analyze_resume(session_id)
    \/ \E session_id \in SessionIds, result \in Analyses :
           save_analysis_data(session_id, result)
    \/ \E session_id \in SessionIds : create_resume(session_id)
    \/ \E session_id \in SessionIds : SaveVersion(session_id)
    \/ \E request \in in_flight : RequestFailed(request)
    \/ \E max_age_seconds \in MaxAges : _cleanup_expired_sessions(max_age_seconds)
    \/ EpochTick

SpecSession == InitSession /\ [][NextSession]_vars

-----------------------------------------------------------------------------
(* _extract_experience over the lines of an experience section              *)
(* (SpecExperience)                                                         *)

MaxSectionLines == 4

\* title lines of the three formats, with and without dates, a date line,
\* bullets, one of them with a date range in its text and one without text,
\* and wrapped text
ExperienceLineKinds ==
    {"Dev | Acme  May 2021", "dev, Acme, May 2021", "Dev, Acme,", "Dev at Acme",
     "Jan 2020 - Mar 2021", U2022 \o " Built it",
     "- Led Jan 2020 - May 2021", "*", "and more", "Lead, x"}

RECURSIVE SectionLinesOfLen(_)
SectionLinesOfLen(n) ==
    IF n = 0 THEN {<< >>}
    ELSE {Append(ls, l) : ls \in SectionLinesOfLen(n - 1), l \in ExperienceLineKinds}

InitExperience ==
    /\ section_lines \in UNION {SectionLinesOfLen(n) : n \in 0..MaxSectionLines}
    /\ line_no = 0
    /\ experience_loop = Some(ExperienceLoop(None, << >>, "", << >>))
    /\ experience_returned = None
    /\ ExperienceOthersIdle

\* for line in section_lines
ExtractLine ==
    /\ experience_returned = None
    /\ line_no < Len(section_lines)
    /\ line_no' = line_no + 1
    /\ experience_loop' =
           Some(ExperienceLine(experience_loop[1], section_lines[line_no + 1]))
    /\ UNCHANGED <<section_lines, experience_returned, experienceOthers>>

\* "Flush last experience" and the return; an empty section returns at once
ReturnExperience ==
    /\ experience_returned = None
    /\ line_no = Len(section_lines)
    /\ experience_returned' = Some(Saved(experience_loop[1]))
    /\ UNCHANGED <<section_lines, line_no, experience_loop, experienceOthers>>

NextExperience ==
    \/ ExtractLine
    \/ ReturnExperience

SpecExperience == InitExperience /\ [][NextExperience]_vars

-----------------------------------------------------------------------------
(* validate_pdf_file on a generated PDF (SpecValidatePdf): the steps of     *)
(* extract_text_from_pdf, then the rest of validate_pdf_file                *)

PdfPath == "resume.pdf"

InitValidatePdf ==
    /\ pdfExists \in BOOLEAN
    /\ pdfPc = "start"
    /\ pdfTried = << >>
    /\ pdfResult = None
    /\ pdf_call \in {Some(call) : call \in ValidatorCalls}
    /\ pdf_validation = None
    /\ PdfvalidateSharedOthersIdle

\* from the return of extract_text_from_pdf to the return of
\* validate_pdf_file
ValidatePdfFile ==
    /\ pdfPc = "done"
    /\ pdf_validation = None
    /\ pdf_validation' =
           Some(validate_pdf_file(pdfResult[1], PdfPath, pdf_call[1][1], pdf_call[1][2]))
    /\ UNCHANGED <<pdfVars, pdf_call, pdfvalidateSharedOthers>>

\* the steps of extract_text_from_pdf leave pdf_call and pdf_validation alone
NextValidatePdf ==
    \/ NextPdf
    \/ ValidatePdfFile

SpecValidatePdf == InitValidatePdf /\ [][NextValidatePdf]_vars

-----------------------------------------------------------------------------
(* Properties of _score_to_grade (SpecGrade)                                *)

Ind(b) == IF b THEN 1 ELSE 0

GradeBand ==
    [g \in {"A+", "A", "B+", "B", "C+", "C", "D", "F"} |->
        CASE g = "A+" -> 95..100
          [] g = "A"  -> 90..94
          [] g = "B+" -> 85..89
          [] g = "B"  -> 80..84
          [] g = "C+" -> 75..79
          [] g = "C"  -> 65..74
          [] g = "D"  -> 50..64
          [] g = "F"  -> 0..49]

GradeRank ==
    [g \in DOMAIN GradeBand |->
        CASE g = "A+" -> 7 [] g = "A" -> 6 [] g = "B+" -> 5 [] g = "B" -> 4
          [] g = "C+" -> 3 [] g = "C" -> 2 [] g = "D" -> 1 [] g = "F" -> 0]

\* C6: the grade is the fixed ladder >=95 A+, >=90 A, >=85 B+, >=80 B,
\* >=75 C+, >=65 C, >=50 D, else F of the overall score alone, and a higher
\* score never gets a worse grade.
C6_GradeLadderMonotonic ==
    grades # None =>
        LET g == grades[1]
        IN  /\ g[1] \in DOMAIN GradeBand /\ gradeScores[1] \in GradeBand[g[1]]
            /\ g[2] \in DOMAIN GradeBand /\ gradeScores[2] \in GradeBand[g[2]]
            /\ (gradeScores[1] <= gradeScores[2]
                    => GradeRank[g[1]] <= GradeRank[g[2]])

\* two scores either side of the B rung have been graded C+ and B
C6_Witness ==
    /\ grades = Some(<<"C+", "B">>)
    /\ gradeScores = <<79, 80>>

-----------------------------------------------------------------------------
(* Properties of _analyze_single_bullet (SpecBullet)                        *)

IsBlank(s) == \A i \in 1..Len(s) : Ch(s, i) \in Whitespace

\* the stripped bullet opens with a weak verb, whatever the case of its letters
OpensWithWeakVerb(c) ==
    \E v \in WEAK_VERBS :
        Len(v) <= Len(c) /\ lower(SubSeq(c, 1, Len(v))) = v

\* the bullet holds one of I, my, me, we, our as a word of its own
ContainsPronoun(c) ==
    \E w \in {"i", "my", "me", "we", "our"} :
        \E i \in 1..Len(c) :
            /\ i + Len(w) - 1 <= Len(c)
            /\ lower(SubSeq(c, i, i + Len(w) - 1)) = w
            /\ ~IsWordChar(Ch(c, i - 1))
            /\ ~IsWordChar(Ch(c, i + Len(w)))

LengthTerm(n) == IF 50 <= n /\ n <= 150 THEN 10 ELSE IF n >= 30 THEN 5 ELSE 0

\* C7: a non-blank bullet scores max(0, min(100, 40 + 20*[action verb]
\* + 25*[metrics] - 15*[opens with a weak verb] - 10*[first-person pronoun]
\* + L)), L = 10 for a stripped length in 50..150, else 5 from 30 up, else 0;
\* a blank bullet scores 0.
C7_BulletScoreFormula ==
    bulletAnalysis # None =>
        LET r == bulletAnalysis[1]
            c == strip(bullet)
        IN  IF IsBlank(bullet)
            THEN r.score = 0
            ELSE r.score =
                    Max(0, Min(100,
                        40 + 20 * Ind(r.has_action_verb)
                           + 25 * Ind(r.has_metrics)
                           - 15 * Ind(OpensWithWeakVerb(c))
                           - 10 * Ind(ContainsPronoun(c))
                           + LengthTerm(Len(c))))

\* a bullet of exactly 50 characters that opens with a weak verb and holds a
\* pronoun has been scored
C7_Witness ==
    /\ bulletAnalysis # None
    /\ Len(strip(bullet)) = 50
    /\ OpensWithWeakVerb(strip(bullet))
    /\ ContainsPronoun(strip(bullet))
    /\ bulletAnalysis[1].score = 25

\* C8: a bullet reported with an action verb and with metrics scores at least
\* 70, and never opens with a weak verb as well.
C8_StrongBulletAtLeast70 ==
    bulletAnalysis # None =>
        LET r == bulletAnalysis[1]
        IN  (r.has_action_verb /\ r.has_metrics) =>
                /\ r.score >= 70
                /\ ~OpensWithWeakVerb(strip(bullet))

\* the lowest such bullet: action verb, metrics, a pronoun, under 30 characters
C8_Witness ==
    /\ bulletAnalysis # None
    /\ bulletAnalysis[1].has_action_verb
    /\ bulletAnalysis[1].has_metrics
    /\ ContainsPronoun(strip(bullet))
    /\ bulletAnalysis[1].score = 75

-----------------------------------------------------------------------------
(* Properties of analyze_resume_ats (SpecScore)                             *)

Analyzed == analysis # None
Result == analysis[1]
R == resume[1]

\* C1: for every resume, job description and keyword list (empty lists and
\* empty fields included) the five entries of score_breakdown are integers
\* in [0,100], and overall_score equals score_breakdown['overall'].
C1_ScoresWithinBounds ==
    Analyzed =>
        /\ DOMAIN Result.score_breakdown =
              {"overall", "keyword_match", "content_quality", "completeness",
               "formatting"}
        /\ \A k \in DOMAIN Result.score_breakdown :
              Result.score_breakdown[k] \in 0..100
        /\ Result.overall_score = Result.score_breakdown.overall

\* a full resume matched on every keyword (completeness and keyword_match at
\* the upper edge, formatting short of it)
C1_Witness ==
    /\ Analyzed
    /\ Result.score_breakdown.completeness = 100
    /\ Result.score_breakdown.keyword_match = 100
    /\ Result.score_breakdown.formatting = 84
    /\ Result.overall_score = 96
    /\ Result.overall_score = Result.score_breakdown.overall

NameOnly(r) ==
    /\ r.name # ""
    /\ r.email = "" /\ r.phone = "" /\ r.linkedin = "" /\ r.github = ""
    /\ r.location = ""
    /\ r.education = << >> /\ r.skills = << >> /\ r.experience = << >>
    /\ r.projects = << >> /\ r.certifications = << >>

HasCritical(issues, message) ==
    \E i \in 1..Len(issues) :
        issues[i].severity = "critical" /\ issues[i].message = message

\* C2: a resume that has only a name, scored against any non-empty keyword
\* list (also one whose keywords all match the name), gets overall_score < 50
\* and critical issues for the missing work experience and the missing skills.
C2_NameOnlyBelow50 ==
    (Analyzed /\ NameOnly(R) /\ keywords # << >>) =>
        /\ Result.overall_score < 50
        /\ HasCritical(Result.format_issues, "No work experience section found")
        /\ HasCritical(Result.format_issues, "No skills section found")

\* every keyword matches the name: the best a name-only resume can score
C2_Witness ==
    /\ Analyzed /\ NameOnly(R)
    /\ keywords = <<FoundWord, FoundWord>>
    /\ Result.matched_keywords = keywords
    /\ Result.score_breakdown.keyword_match = 100
    /\ Result.overall_score \in {46, 47}

Strong(b) == b.has_action_verb /\ b.has_metrics

\* the premises of the clean-resume scenario
CleanResume(r) ==
    /\ Len(r.experience) = 2
    /\ \A i \in 1..2 :
          /\ Len(r.experience[i].bullets) \in {5, 6}
          /\ \A k \in 1..Len(r.experience[i].bullets) :
                Strong(_analyze_single_bullet(r.experience[i].bullets[k]))
    /\ r.skills # << >> /\ r.education # << >> /\ r.certifications # << >>

EightyPercentFound ==
    /\ keywords # << >>
    /\ 5 * Len(Result.matched_keywords) = 4 * Len(keywords)

BOrBetter(grade) == grade \in {"B", "B+", "A", "A+"}

\* C3 as stated: every clean resume with 80% of the keywords found scores
\* overall >= 80 with a grade of B or better, whatever else it holds.
C3_CleanResumeAtLeast80_AsStated ==
    (Analyzed /\ CleanResume(R) /\ EightyPercentFound) =>
        (Result.overall_score >= 80 /\ BOrBetter(Result.grade))

\* C3 (amended): project descriptions are analysed as bullets too, so the
\* bound needs every analysed bullet, the non-empty project descriptions
\* included, to have an action verb and a metric.
C3_CleanResumeAtLeast80 ==
    (/\ Analyzed /\ CleanResume(R) /\ EightyPercentFound
     /\ \A i \in 1..Len(R.projects) :
           R.projects[i].description # "" =>
               Strong(_analyze_single_bullet(R.projects[i].description)))
        => (Result.overall_score >= 80 /\ BOrBetter(Result.grade))

\* the worst clean resume: short bullets with pronouns, no contact fields, no
\* dates, formatting at 0
C3_Witness ==
    /\ Analyzed /\ CleanResume(R) /\ EightyPercentFound
    /\ R.projects = << >>
    /\ R.email = ""
    /\ Result.score_breakdown.formatting = 0
    /\ Result.score_breakdown.content_quality \in {89, 90}
    /\ Result.overall_score \in {81, 82}
    /\ Result.grade = "B"

\* round(num / den) to the nearest integer, ties to even as Python's round
RoundNearest(num, den) ==
    LET q == num \div den
        r == num % den
    IN  IF 2 * r > den \/ (2 * r = den /\ q % 2 = 1) THEN q + 1 ELSE q

-----------------------------------------------------------------------------
(* Properties of the keyword stages of analyze_resume_ats (SpecKeywords)    *)

\* every string the resume holds
ResumeStrings(r) ==
    {r.name, r.email, r.phone, r.linkedin, r.github, r.location}
    \cup UNION {{r.education[i].degree, r.education[i].university,
                 r.education[i].location, r.education[i].dates,
                 r.education[i].gpa}
                \cup {r.education[i].coursework[k] :
                         k \in 1..Len(r.education[i].coursework)} :
                   i \in 1..Len(r.education)}
    \cup UNION {{r.skills[i].category}
                \cup {r.skills[i].skills[k] : k \in 1..Len(r.skills[i].skills)} :
                   i \in 1..Len(r.skills)}
    \cup UNION {{r.experience[i].title, r.experience[i].company,
                 r.experience[i].dates}
                \cup {r.experience[i].bullets[k] :
                         k \in 1..Len(r.experience[i].bullets)} :
                   i \in 1..Len(r.experience)}
    \cup UNION {{r.projects[i].name, r.projects[i].description,
                 r.projects[i].category}
                \cup {r.projects[i].technologies[k] :
                         k \in 1..Len(r.projects[i].technologies)} :
                   i \in 1..Len(r.projects)}
    \cup UNION {{r.certifications[i].name, r.certifications[i].issuer,
                 r.certifications[i].year} : i \in 1..Len(r.certifications)}

\* k occurs verbatim in the resume
OccursVerbatim(k, r) == \E str \in ResumeStrings(r) : Contains(str, k)

\* C4: keyword monotonicity.  When the list K of one call is re-scored as
\* K + [k] with k occurring verbatim in the resume, keyword_match_percentage
\* does not decrease.
C4_KeywordMonotonicity ==
    [][(/\ analysis # None
        /\ analysis' # None
        /\ keywords' = Append(keywords, keywords'[Len(keywords')])
        /\ OccursVerbatim(keywords'[Len(keywords')], R))
       => analysis'[1].keyword_match_percentage
              >= analysis[1].keyword_match_percentage]_vars

SkillsOf(gaps) == {gaps[i].skill : i \in 1..Len(gaps)}
Elements(seq) == {seq[i] : i \in 1..Len(seq)}

\* C9: the keywords reported in skill_gaps (none is cut off by the cap of 15
\* here) are exactly the missing_keywords, and no keyword is both in
\* matched_keywords and in skill_gaps.
C9_GapsAreTheMissingKeywords ==
    (Analyzed /\ Len(keywords) <= 15) =>
        /\ SkillsOf(Result.skill_gaps) = Elements(Result.missing_keywords)
        /\ SkillsOf(Result.skill_gaps) \cap Elements(Result.matched_keywords) = {}

-----------------------------------------------------------------------------
(* Properties of validate_resume_output (SpecValidate)                      *)

Validated == validation # None
Validation == validation[1]

\* the number of returned issues of one severity
IssueCount(severity) ==
    Cardinality({k \in 1..Len(Validation.issues) :
                    Validation.issues[k].severity = severity})

\* 100 - 15*c - 5*w - 1*i over the returned issues
RawCompatibility ==
    100 - 15 * IssueCount("critical") - 5 * IssueCount("warning")
        - IssueCount("info")

\* C10: compatibility_score is 100 - 15*c - 5*w - 1*i clamped to [0, 100],
\* where c, w, i count the critical, warning and info entries of the returned
\* issues, and ats_compatible is true exactly when compatibility_score >= 70.
C10_CompatibilityScoreFormula ==
    Validated =>
        /\ Validation.compatibility_score =
               (IF RawCompatibility < 0 THEN 0
                ELSE IF RawCompatibility > 100 THEN 100
                ELSE RawCompatibility)
        /\ Validation.ats_compatible <=> (Validation.compatibility_score >= 70)

\* a call whose issues of all three severities take more than 100 off: the
\* score is held at 0
C10_Witness ==
    /\ Validated
    /\ IssueCount("critical") >= 1
    /\ IssueCount("warning") >= 1
    /\ IssueCount("info") >= 1
    /\ RawCompatibility < 0
    /\ Validation.compatibility_score = 0
    /\ ~Validation.ats_compatible

-----------------------------------------------------------------------------
(* Properties of sanitize_for_ats (SpecSanitize)                            *)

\* C12: sanitize_for_ats is idempotent: sanitizing the output of a first call
\* again returns that output unchanged, for every text, zero-width characters
\* next to spaces or newlines included.
C12_SanitizeIdempotent ==
    Len(sanitized) >= 2 => sanitized[2] = sanitized[1]

\* the part of C12 the code keeps: without U+200C / U+200D in the text the
\* second call changes nothing
C12_IdempotentWithoutJoiners ==
    (Len(sanitized) >= 2 /\ ~Contains(stext, U200C))
        => sanitized[2] = sanitized[1]

-----------------------------------------------------------------------------
(* Properties of the section boundaries (SpecSections)                      *)

\* the line indices of the slice of a section
SliceIndices(section) ==
    {rsections[section][k][1] : k \in 1..Len(rsections[section])}

\* the slice is a run of consecutive lines of rlines, in their order
IsContiguousRun(slice) ==
    \A k \in 1..Len(slice) :
        /\ slice[k][1] \in 0..(Len(rlines) - 1)
        /\ slice[k][2] = rlines[slice[k][1] + 1]
        /\ k > 1 => slice[k][1] = slice[k - 1][1] + 1

\* C13: after _find_section_boundaries and _smart_section_boundaries, the
\* slices _get_section_lines returns for two different sections share no
\* line index, and every slice is a contiguous run of the original lines in
\* their original order.
C13_BoundaryNonOverlap ==
    rpass = 3 =>
        /\ \A s1 \in DOMAIN rsections : \A s2 \in DOMAIN rsections :
               s1 # s2 => SliceIndices(s1) \cap SliceIndices(s2) = {}
        /\ \A s \in DOMAIN rsections : IsContiguousRun(rsections[s])

\* two sections found by gap-fill, both with lines
C13_Witness ==
    /\ rpass = 3
    /\ rlines = <<"Acme, Jan 2020", "Jane Doe", "BS, MIT">>
    /\ DOMAIN rsections = {"experience", "education"}
    /\ rsections["experience"] = <<<<0, "Acme, Jan 2020">>>>
    /\ rsections["education"] = <<<<2, "BS, MIT">>>>

\* the sections the gap-fill pass assigned: no header gave them a boundary
GapFilled ==
    DOMAIN rboundaries \ DOMAIN _find_section_boundaries(rlines)

\* C26: a section that _smart_section_boundaries assigned from content line
\* i (its boundary is i - 1) gets from _get_section_lines a slice that
\* contains line i, also when line i - 1 is the boundary of another section.
C26_GapFillKeepsItsLine ==
    rpass = 3 =>
        \A section \in GapFilled :
            rboundaries[section] + 1 \in SliceIndices(section)

\* gap-fill put a virtual boundary on the header line of another section,
\* and both sections lost their lines
C26_SharedBoundary ==
    /\ rpass = 3
    /\ \E section \in GapFilled :
           \E other \in DOMAIN rboundaries \ GapFilled :
               /\ rboundaries[other] = rboundaries[section]
               /\ rsections[section] = << >>
               /\ rsections[other] = << >>

\* the content lines of two gap-filled sections follow each other, and the
\* first section's slice ends before its own line
C26_NextSectionStartsOnTheLine ==
    /\ rpass = 3
    /\ \E section \in GapFilled : \E other \in GapFilled :
           /\ rboundaries[other] = rboundaries[section] + 1
           /\ rsections[section] = << >>

\* a gap-filled section that keeps its content line
C26_LineKept ==
    /\ rpass = 3
    /\ \E section \in GapFilled :
           rboundaries[section] + 1 \in SliceIndices(section)

-----------------------------------------------------------------------------
(* Properties of _parse_text (SpecParse)                                    *)

\* the quality gate in the words of the claim: at least 3 of a non-default
\* name, an experience entry, a non-empty skills list and an education entry,
\* and at least one experience entry with a bullet
GateFlags(r) ==
    {f \in {"name", "experience", "skills", "education"} :
        \/ f = "name" /\ r.name # "Your Name"
        \/ f = "experience" /\ r.experience # << >>
        \/ f = "skills" /\ \E k \in DOMAIN r.skills : r.skills[k].skills # << >>
        \/ f = "education" /\ r.education # << >>}

PassesGate(r) ==
    /\ Cardinality(GateFlags(r)) >= 3
    /\ \E k \in DOMAIN r.experience : r.experience[k].bullets # << >>

C15_FallbackToRegex ==
    (/\ parsePc = "done"
     /\ ~PassesGate(regex_result[1])
     /\ (~llmAvailable \/ llmRaised))
        => /\ parsed[1].kind = "return"
           /\ parsed[1].value = regex_result[1]

\* the LLM parser was called and raised
C15_Witness ==
    /\ parsePc = "done"
    /\ ~PassesGate(regex_result[1])
    /\ llmAvailable
    /\ llmRaised
    /\ llmCalls = 1
    /\ parsed = Some(Return(regex_result[1]))

-----------------------------------------------------------------------------
(* Properties of extract_text_from_pdf (SpecPdf)                            *)

StrategyOrder == <<"char_gap", "pdfplumber", "pypdf">>

\* the strategies run in order, each after the one before it gave nothing
LadderInOrder ==
    /\ Len(pdfTried) <= 3
    /\ \A k \in 1..Len(pdfTried) :
           /\ pdfTried[k].strategy = StrategyOrder[k]
           /\ k < Len(pdfTried) => ~pdfTried[k].accepted

AllRejected ==
    Len(pdfTried) = 3 /\ \A k \in 1..3 : ~pdfTried[k].accepted

\* the part of C16 that holds: order, and an error exactly when all three
\* strategies gave nothing
C16_LadderOrderAndFailure ==
    /\ LadderInOrder
    /\ (pdfPc = "done" /\ pdfExists)
           => (pdfResult[1].kind = "raise" <=> AllRejected)

\* C16: for an existing file, extract_text_from_pdf tries char-gap,
\* pdfplumber, pypdf in this order, each only after the one before raised or
\* was rejected; it raises if and only if all three are rejected; and a
\* returned text is never empty or blank.
C16_LadderNeverBlank ==
    /\ LadderInOrder
    /\ (pdfPc = "done" /\ pdfExists)
           => /\ pdfResult[1].kind = "raise" <=> AllRejected
              /\ pdfResult[1].kind = "return"
                     => strip(pdfResult[1].value) # ""

-----------------------------------------------------------------------------
(* Properties of _extract_with_char_gaps (SpecGlyphs)                       *)

Layout == glyphLayout[1]

\* C17: for two consecutive characters on the same line, a single space is
\* inserted whenever the gap next.x0 - prev.x1 is at least 0.35 times the
\* width prev.x1 - prev.x0 of the preceding glyph, for every glyph width,
\* narrow glyphs included: two words set with such a gap come back as two
\* tokens.
C17_SpaceAtThirtyFivePercent ==
    (/\ glyphText # None
     /\ Layout.placement = "one line"
     /\ 100 * Layout.gap >= 35 * Layout.width)
        => glyphText[1] = Layout.words[1] \o " " \o Layout.words[2]

\* what the code does: a space exactly when the gap exceeds 0.35 times the
\* width, the width taken as 3 points at least; at the threshold itself the
\* float rounding decides
C17_SpaceAboveClampedThreshold ==
    (glyphText # None /\ Layout.placement = "one line")
        => /\ 100 * Layout.gap > 35 * Max(Layout.width, 300)
               => glyphText[1] = Layout.words[1] \o " " \o Layout.words[2]
           /\ 100 * Layout.gap < 35 * Max(Layout.width, 300)
               => glyphText[1] = Layout.words[1] \o Layout.words[2]

-----------------------------------------------------------------------------
(* Properties of generate_resume (SpecGenerate)                             *)

ExperienceIdentity(resume_data) ==
    [i \in 1..Len(resume_data.experience) |->
        [resume_data.experience[i] EXCEPT !.bullets = << >>]]

ProjectIdentity(resume_data) ==
    [i \in 1..Len(resume_data.projects) |->
        [resume_data.projects[i] EXCEPT !.description = ""]]

SameButRewrites(now, before) ==
    /\ ExperienceIdentity(now) = ExperienceIdentity(before)
    /\ ProjectIdentity(now) = ProjectIdentity(before)
    /\ [now EXCEPT !.experience = << >>, !.projects = << >>]
         = [before EXCEPT !.experience = << >>, !.projects = << >>]

\* C18: after any sequence of generations the session's ResumeData differs
\* from the uploaded one only in the bullets of experience entries and the
\* description of project entries: number, order and identity of the
\* entries and every other field are as after upload.
C18_OnlyRewritesChange ==
    resume_data_cache # None =>
        SameButRewrites(resume_data_cache[1], uploaded[1])

-----------------------------------------------------------------------------
(* Properties of TaskQueue (SpecQueue, SpecQueueFair)                       *)

Submitted == DOMAIN _tasks

RunningTasks == {t \in Submitted : _tasks[t].status = RUNNING}

\* tasks whose function has started and not ended
ExecutingTasks == {t \in Submitted : asyncio_task[t].pc = "func"}

\* tasks suspended in acquire that no slot has been given to
QueuedTasks ==
    {t \in Submitted : /\ asyncio_task[t].pc = "acquire"
                       /\ Waiter(_semaphore[1], t).fut = "pending"}

\* waiters holding a slot they have not yet resumed with
GivenSlots ==
    IF _semaphore = None THEN {}
    ELSE {i \in 1..Len(_semaphore[1]._waiters) :
             _semaphore[1]._waiters[i].fut = "result"}

SettledAs(t, completed_or_failed_only) ==
    LET ended == funcEnded[t]
        res == get_result(_tasks[t])
    IN  IF ended # None /\ ended[1].kind = "return"
        THEN /\ res.status = COMPLETED
             /\ res.result = Some(ended[1].value)
        ELSE IF ended # None
                /\ (completed_or_failed_only \/ ended[1].exception # CancelledError)
        THEN /\ res.status = FAILED
             /\ res.error = Some(ErrorText(ended[1].exception))
             /\ res.result = None
        ELSE /\ res.status = CANCELLED
             /\ res.error = None
             /\ res.result = None

Done(t) == t \in Submitted /\ asyncio_task[t].pc = "done"

\* every slot is free, held by an executing function, or given to a waiter
SlotsAccounted ==
    _semaphore # None =>
        _semaphore[1]._value + Cardinality(ExecutingTasks) + Cardinality(GivenSlots)
            = max_concurrency

\* C20 as stated: a task whose function ended is COMPLETED with the returned
\* value as result if the function returned, and FAILED with error
\* "<ExceptionType>: <message>" and no result if it raised.
C20_CompletedOrFailed ==
    \A t \in Submitted : (Done(t) /\ funcEnded[t] # None) => SettledAs(t, TRUE)

\* C20, amended: every submitted task is eventually done, also with more
\* tasks than max_concurrency, and then stands as its function ended:
\* COMPLETED with the returned value, FAILED with "<ExceptionType>: <message>"
\* and no result for an Exception, CANCELLED with neither error nor result
\* when the function ended with CancelledError or never ran; no slot is lost.
C20_SettlesAsEnded ==
    /\ [](SlotsAccounted /\ \A t \in Submitted : Done(t) => SettledAs(t, FALSE))
    /\ \A t \in TaskIds : (t \in Submitted) ~> Done(t)

C20_Witness ==
    /\ Cardinality(Submitted) > max_concurrency
    /\ \A t \in Submitted : Done(t)
    /\ \E t \in Submitted : _tasks[t].status = COMPLETED
    /\ \E t \in Submitted : _tasks[t].status = FAILED
    /\ \E t \in Submitted : funcEnded[t] = Some(Raise(CancelledError))

-----------------------------------------------------------------------------
(* Properties of TaskQueue.cancel (SpecCancel)                              *)

\* C21 as stated: a task for which cancel returned True is CANCELLED in
\* every later state; it never becomes COMPLETED or FAILED.
C21_StaysCancelled ==
    \A t \in cancelled_ok : _tasks[t].status = CANCELLED

\* the part of C21 about the call itself: cancel returns True exactly for a
\* known task that is PENDING or RUNNING and leaves it CANCELLED; otherwise
\* it returns False and the queue is as before
C21_CancelCall ==
    [][\A task_id \in TaskIds : CancelCall(task_id) =>
          IF task_id \in DOMAIN _tasks /\ _tasks[task_id].status \in {PENDING, RUNNING}
          THEN /\ cancel_returned'[1].returned
               /\ _tasks'[task_id].status = CANCELLED
               /\ \A u \in DOMAIN _tasks \ {task_id} : _tasks'[u] = _tasks[u]
          ELSE /\ ~cancel_returned'[1].returned
               /\ UNCHANGED queueVars]_vars

\* a running task was cancelled, and its function went on to return
C21_CancelledThenCompleted ==
    \E t \in cancelled_ok : _tasks[t].status = COMPLETED

-----------------------------------------------------------------------------
(* Properties of TaskQueue.cleanup_old_tasks (SpecCleanup)                  *)

\* C27 as stated, its last part: cleanup_old_tasks never removes a task
\* whose function is still executing.
C27_NeverRemovesExecuting ==
    \A t \in deleted : asyncio_task[t].pc # "func"

\* the rest of C27: cleanup_old_tasks removes exactly the tasks in a
\* terminal status whose completed_at is more than _result_ttl in the past,
\* returns their number, and removes no PENDING or RUNNING task
C27_RemovesTheExpired ==
    [][cleanup_old_tasks =>
          /\ \A t \in DOMAIN _tasks \ deleted :
                 (t \in deleted') <=>
                     /\ _tasks[t].status \in {COMPLETED, FAILED, CANCELLED}
                     /\ time - _tasks[t].completed_at > _result_ttl
          /\ cleanup_returned' = Some(Cardinality(deleted' \ deleted))]_vars

\* a task was removed while its function was still executing
C27_RemovedWhileExecuting ==
    \E t \in deleted : asyncio_task[t].pc = "func" /\ _tasks[t].status = CANCELLED

-----------------------------------------------------------------------------
(* Properties of RateLimitMiddleware (SpecRateLimit)                        *)

\* the requests of ip for path handed on in the window (start, start + window_seconds]
ForwardedIn(ip, path, start) ==
    {i \in 1..Len(forwarded) :
        /\ forwarded[i].client_ip = ip
        /\ forwarded[i].path = path
        /\ forwarded[i].at \in (start + 1)..(start + window_seconds)}

ConfiguredPaths == {exclude_paths[i] : i \in 1..Len(exclude_paths)}

\* C22 as stated: for every client and every path that is not one of the
\* configured exclude_paths, at most max_requests requests are handed to
\* the application in any window of window_seconds.
C22_LimitedUnlessConfigured ==
    \A ip \in ClientIps, path \in Paths \ ConfiguredPaths, start \in -1..MaxWallTime :
        Cardinality(ForwardedIn(ip, path, start)) <= max_requests

\* what the code keeps: the limit holds, for all paths of a client
\* together, on the paths that no exclude path is a prefix of
C22_LimitedUnlessPrefixed ==
    \A ip \in ClientIps, start \in -1..MaxWallTime :
        Cardinality(UNION {ForwardedIn(ip, path, start) :
                              path \in {p \in Paths : ~Excluded(p, exclude_paths)}})
            <= max_requests

\* a request over the limit was answered 429 on a limited path
C22_Refused ==
    /\ status_code = Some(429)
    /\ \E ip \in ClientIps : Len(HitsOf(_hits, ip)) = max_requests

\* with the default exclude_paths, more than max_requests requests for
\* /api/analyze of one client were handed on at the same time
C22_DefaultNeverLimits ==
    /\ exclude_paths = DefaultExcludePaths
    /\ \E ip \in ClientIps :
          Cardinality(ForwardedIn(ip, "/api/analyze", wall_time - 1)) > max_requests

-----------------------------------------------------------------------------
(* Properties of the key store (SpecAuth)                                   *)

ValidatedRevoked ==
    /\ auth_returned # None
    /\ auth_returned[1].call = "validate_key"
    /\ auth_returned[1].key[1] \in revoked

\* C23 as stated: validate_key of a key that revoke_api_key removed, and
\* that was not added again, returns False, whatever other keys there are.
C23_RevokedIsInvalid ==
    ValidatedRevoked => ~auth_returned[1].returned

\* the revoked key was also a static key, and _init_auth loaded it again
C23_StaticKeyReloaded ==
    /\ ValidatedRevoked
    /\ auth_returned[1].key[1] \in _valid_keys
    /\ auth_returned[1].returned

\* the only key was revoked, and validate_key accepts it
C23_LastKeyRevoked ==
    /\ ValidatedRevoked
    /\ _valid_keys = {}
    /\ auth_returned[1].returned

-----------------------------------------------------------------------------
(* Properties of LocalStorage (SpecStorage)                                 *)

\* path is base_dir or below it
InsideBase(path) ==
    Len(path) >= Len(base_dir) /\ SubSeq(path, 1, Len(base_dir)) = base_dir

OutsideUntouched ==
    /\ \A p \in DOMAIN InitialFiles : p \in DOMAIN files /\ files[p] = InitialFiles[p]
    /\ \A p \in DOMAIN files : InsideBase(p) \/ p \in DOMAIN InitialFiles

\* C24 as stated: a call whose key resolves to a path that is neither
\* base_dir nor inside it raises ValueError, and no file outside base_dir
\* is created, changed, deleted or read.
C24_NoTraversal ==
    /\ OutsideUntouched
    /\ storage_returned # None =>
          (~InsideBase(Resolved(<< >>, Joined(base_dir, storage_returned[1].key)))
              => storage_returned[1].outcome = Raise("ValueError"))

\* a file of the sibling directory outputs_evil was overwritten
C24_SiblingWritten ==
    files[<<"srv", "outputs_evil", "x.txt">>] = "hack"

\* the traversal of the test is refused
C24_TraversalRefused ==
    /\ storage_returned # None
    /\ storage_returned[1].key = Key(<<"..", "..", "etc", "passwd">>)
    /\ storage_returned[1].outcome = Raise("ValueError")

-----------------------------------------------------------------------------
(* Properties of the session stores (SpecSession)                           *)

\* dict restricted to the keys outside gone, entry by entry
SameBut(after, before, gone) ==
    /\ DOMAIN after = DOMAIN before \ gone
    /\ \A k \in DOMAIN after : after[k] = before[k]

\* the sessions whose registered age exceeds max_age_seconds
OverAge(max_age_seconds) ==
    {session_id \in DOMAIN session_timestamps :
        epoch - session_timestamps[session_id] > max_age_seconds}

\* C25: a call of _cleanup_expired_sessions(max_age) removes from
\* resume_data_cache, resume_versions, session_timestamps and analysis_cache
\* exactly the entries of the sessions whose registered age exceeds max_age
\* and returns their number; every other entry stays as it was.
C25_RemovesExactlyTheExpired ==
    [][\A max_age_seconds \in MaxAges :
          _cleanup_expired_sessions(max_age_seconds) =>
              /\ SameBut(resume_data_cache', resume_data_cache, OverAge(max_age_seconds))
              /\ SameBut(resume_versions', resume_versions, OverAge(max_age_seconds))
              /\ SameBut(session_timestamps', session_timestamps,
                         OverAge(max_age_seconds))
              /\ SameBut(analysis_cache', analysis_cache,
                         {LatestKey(session_id) : session_id \in OverAge(max_age_seconds)})
              /\ sessions_expired'[1].returned = Cardinality(OverAge(max_age_seconds))]_vars

\* a cleanup removed one session and left the other with its data, its
\* analysis and a version
C25_OneExpiredOneKept ==
    /\ sessions_expired # None
    /\ sessions_expired[1].returned = 1
    /\ \E session_id \in DOMAIN session_timestamps :
           /\ session_id \in DOMAIN resume_data_cache
           /\ session_id \in DOMAIN resume_versions
           /\ LatestKey(session_id) \in DOMAIN analysis_cache

\* every session with data, versions or an analysis is registered
Registered(session_id) ==
    (\/ session_id \in DOMAIN resume_data_cache
     \/ session_id \in DOMAIN resume_versions
     \/ LatestKey(session_id) \in DOMAIN analysis_cache)
        => session_id \in DOMAIN session_timestamps

VersionsCapped ==
    \A session_id \in DOMAIN resume_versions :
        Len(resume_versions[session_id]) <= MaxVersions

\* C30: every session id with an entry in resume_data_cache, resume_versions
\* or analysis_cache has an entry in session_timestamps, and no session holds
\* more versions than _save_version keeps.
C30_EverySessionRegistered ==
    /\ \A session_id \in SessionIds : Registered(session_id)
    /\ VersionsCapped

\* the part of C30 that holds: _save_version keeps the list within its limit
C30_VersionsCapped == VersionsCapped

\* versions of a session that was never uploaded, or an analysis saved after
\* the session expired: entries no cleanup will remove
C30_UnregisteredVersions ==
    \E session_id \in DOMAIN resume_versions :
        /\ session_id \notin DOMAIN session_timestamps
        /\ session_id \notin DOMAIN resume_data_cache

C30_UnregisteredAnalysis ==
    \E session_id \in SessionIds :
        /\ LatestKey(session_id) \in DOMAIN analysis_cache
        /\ session_id \notin DOMAIN session_timestamps

-----------------------------------------------------------------------------
(* Properties of _extract_experience (SpecExperience)                       *)

\* the positions (1-based) of the recognised title lines
TitlePositions ==
    {k \in 1..Len(section_lines) : TitleFormat(section_lines[k]) # 0}

\* the entry a line belongs to: the number of title lines up to it
EntryOf(k) == Cardinality({t \in TitlePositions : t <= k})

\* a line that begins with a bullet glyph followed by text
IsBulletLine(k) ==
    bullet_match(section_lines[k]) /\ BulletText(section_lines[k]) # ""

\* the first line after the title of entry j that holds a date range, when
\* the title gave no dates: the line the fallback takes for the dates
TakenForDates(k) ==
    /\ EntryOf(k) > 0
    /\ k \notin TitlePositions
    /\ date_match(section_lines[k]) # ""
    /\ \E t \in TitlePositions :
           /\ t < k
           /\ EntryOf(t) = EntryOf(k)
           /\ OpenedBy(section_lines[t], TitleFormat(section_lines[t])).dates = ""
           /\ \A m \in (t + 1)..(k - 1) : date_match(section_lines[m]) = ""

\* the positions of the bullet lines of entry j outside skipped, in order
BulletLinesOf(j, skipped) ==
    SelectSeq([k \in 1..Len(section_lines) |-> k],
              LAMBDA k : EntryOf(k) = j /\ IsBulletLine(k) /\ k \notin skipped)

\* the entries returned hold one bullet for each of these lines, in order,
\* each beginning with the text of its line
BulletsFromLines(skipped) ==
    /\ Len(experience_returned[1]) = Cardinality(TitlePositions)
    /\ \A j \in 1..Len(experience_returned[1]) :
           /\ Len(experience_returned[1][j].bullets) = Len(BulletLinesOf(j, skipped))
           /\ \A i \in 1..Len(BulletLinesOf(j, skipped)) :
                  startswith(experience_returned[1][j].bullets[i],
                             BulletText(section_lines[BulletLinesOf(j, skipped)[i]]))

\* C29: every line that begins with a bullet glyph followed by text and
\* comes after a recognised title line is the start of exactly one bullet of
\* the entry of the latest title line before it, in the order of the lines;
\* none is dropped, taken as a date line or given to another entry.
C29_EveryBulletLineKept ==
    experience_returned # None => BulletsFromLines({})

\* what holds instead: the bullet lines are kept but for those the date
\* fallback takes
C29_KeptUnlessTakenForDates ==
    experience_returned # None =>
        BulletsFromLines({k \in 1..Len(section_lines) : TakenForDates(k)})

\* a bullet line whose text holds a date range became the dates of an entry
\* and none of its bullets
C29_BulletTakenAsDates ==
    /\ experience_returned # None
    /\ \E k \in 1..Len(section_lines) :
           /\ IsBulletLine(k)
           /\ TakenForDates(k)
           /\ experience_returned[1][EntryOf(k)].dates = date_match(section_lines[k])
           /\ experience_returned[1][EntryOf(k)].bullets = << >>

\* two entries, each with the bullets of its own lines
C29_TwoEntriesWithBullets ==
    /\ experience_returned # None
    /\ Len(experience_returned[1]) = 2
    /\ \A j \in 1..2 : Len(experience_returned[1][j].bullets) = 1
    /\ BulletsFromLines({})

-----------------------------------------------------------------------------
(* Properties of validate_pdf_file (SpecValidatePdf)                        *)

\* the 'file_read' failure: score 0, not compatible, one critical issue
IsFileReadFailure(result) ==
    /\ ~result.ats_compatible
    /\ result.compatibility_score = 0
    /\ Len(result.issues) = 1
    /\ result.issues[1].severity = "critical"
    /\ result.issues[1].check = "file_read"

\* C28: validate_pdf_file returns the 'file_read' failure only when
\* extract_text_from_pdf raised, and when the extraction returned a text it
\* returns what validate_resume_output gives for that text.
C28_FailureOnlyWithoutText ==
    pdf_validation # None =>
        /\ IsFileReadFailure(pdf_validation[1]) => pdfResult[1].kind = "raise"
        /\ pdfResult[1].kind = "return" =>
               pdf_validation[1] =
                   validate_resume_output(pdfResult[1].value, pdf_call[1][1],
                                          pdf_call[1][2])

\* what holds instead: every extracted text but one of two characters ends
\* in the 'file_read' failure
C28_FailureUnlessTwoCharacters ==
    (pdf_validation # None /\ pdfResult[1].kind = "return"
        /\ Len(pdfResult[1].value) # 2)
        => IsFileReadFailure(pdf_validation[1])

\* a long, well spaced text was extracted and the result is the failure
C28_ExtractedTextRefused ==
    /\ pdf_validation # None
    /\ pdfResult[1] = Return(Repeat("Built a data pipeline. ", MaxWordRepeats))
    /\ IsFileReadFailure(pdf_validation[1])
    /\ pdf_validation[1].issues[1].message =
           "Could not read PDF file: too many values to unpack (expected 2)"

\* a text of two characters was extracted and its first character validated
C28_FirstCharacterValidated ==
    /\ pdf_validation # None
    /\ pdfResult[1] = Return("JD")
    /\ pdf_validation[1] =
           validate_resume_output("J", pdf_call[1][1], pdf_call[1][2])
    /\ ~IsFileReadFailure(pdf_validation[1])

=============================================================================
